---- MODULE Spec2Model ----
(***************************************************************************)
(* Contact Sync Engine of neriyabudraham/registration:                     *)
(* ContactSaverService (the Sync Orchestrator), GoogleContactsService (the *)
(* Directory Client) and the parts of DatabaseService they use.            *)
(***************************************************************************)
EXTENDS Integers, Sequences, FiniteSets, TLC

\* ------------------------------------------------------------------ bounds
NumCustomers == 6
NumTables == 2
NumPhones == 2
MaxCalls == 2
MaxTime == 1
MaxSuffix == 3
MaxLen == 3
MaxLog == 4

\* -------------------------------------------------------- program constants
CEILING == 25000
DEFAULT_RETRY == 60
LAST_DIGITS == 9
BATCH_SIZE == 5
SUFFIX_LIMIT == 1000
MAX_NAME == 35

\* The first campaign table has a row for every phone, the later ones for the
\* first phone only.
RowsOf(t) == IF t = 1 THEN 1..NumPhones ELSE {1}

Customers == 1..NumCustomers
Tables == 1..NumTables
Phones == 1..NumPhones
Calls == 1..MaxCalls

\* Every customer has two rows (two Google accounts) in the customers table.
Accounts == 1..(2 * NumCustomers)
AccountsOf(c) == {2 * c - 1, 2 * c}

Critical == {"TOKEN_INVALID", "PERMISSION_DENIED", "CONTACT_LIMIT_EXCEEDED", "CONTACT_LIMIT_MAX"}
Kinds == Critical \cup {"RATE_LIMIT_TEMPORARY", "UNKNOWN_ERROR"}
NoError == "NULL"
NullCount == -1

\* ------------------------------------------------------------ phone strings
\* A phone is a sequence of characters: the digits 0..9, and 10 for any
\* non-digit character ("-", "+", " ").  Row p of a campaign table holds the
\* local form 050111111p; a directory entry holds the local form or the
\* international form +972-50-111111p of the same number.
Entries == 1..(2 * NumPhones)
Local(p) == 2 * p - 1
Intl(p) == 2 * p
PhoneText(e) ==
    IF e % 2 = 1 THEN <<0, 5, 0, 1, 1, 1, 1, 1, 1, (e + 1) \div 2>>
    ELSE <<10, 9, 7, 2, 10, 5, 0, 10, 1, 1, 1, 1, 1, 1, e \div 2>>

IsDigit(ch) == ch \in 0..9
StripNonDigits(s) == SelectSeq(s, IsDigit)
Slice(s, n) == IF Len(s) <= n THEN s ELSE SubSeq(s, Len(s) - n + 1, Len(s))

Contains(s, q) ==
    /\ q # <<>>
    /\ \E i \in 1..(Len(s) - Len(q) + 1) : SubSeq(s, i, i + Len(q) - 1) = q

\* people:searchContacts as the client uses it: an entry is returned when one
\* of its phone fields contains the queried digits.
FullQueryHits == [q \in Entries |-> {e \in Entries :
    Contains(StripNonDigits(PhoneText(e)), StripNonDigits(PhoneText(q)))}]
ShortQueryHits == [q \in Entries |-> {e \in Entries :
    Contains(StripNonDigits(PhoneText(e)), Slice(StripNonDigits(PhoneText(q)), LAST_DIGITS))}]
SameLastDigits == [q \in Entries |-> {e \in Entries :
    Slice(StripNonDigits(PhoneText(e)), LAST_DIGITS)
        = Slice(StripNonDigits(PhoneText(q)), LAST_DIGITS)}]
IsLong == [q \in Entries |-> Len(StripNonDigits(PhoneText(q))) > LAST_DIGITS]

\* A search that compares the last digits of an entry with the whole query.
SearchContactByFullPhone(entries, q) ==
    LET present == {e \in Entries : entries[e] > 0}
        first == present \cap FullQueryHits[q]
        results == IF first = {} /\ IsLong[q]
                   THEN present \cap ShortQueryHits[q]
                   ELSE first
    IN  \E e \in results :
            Slice(StripNonDigits(PhoneText(e)), LAST_DIGITS) = StripNonDigits(PhoneText(q))

\* searchContactByPhone(phone) on the entries of one account; phone is the
\* text of entry form q.
SearchContactByPhone(entries, q) ==
    LET present == {e \in Entries : entries[e] > 0}
        first == present \cap FullQueryHits[q]
        results == IF first = {} /\ IsLong[q]
                   THEN present \cap ShortQueryHits[q]
                   ELSE first
    IN  results \cap SameLastDigits[q] # {}

\* ------------------------------------------------- Directory Client failures
\* A failed request as it leaves makeRequest: the HTTP status (0 when there is
\* no response: the token refresh failed), whether the error message mentions
\* quota or limit, and the Retry-After header (-1 when absent).
NoHeader == -1
Headers == {NoHeader, 0, 1}
HttpError(st, q, h, rf) == [status |-> st, quota |-> q, header |-> h, refreshFailed |-> rf]
HttpErrors ==
    {HttpError(429, FALSE, h, FALSE) : h \in Headers}
    \cup {HttpError(403, q, NoHeader, FALSE) : q \in BOOLEAN}
    \cup {HttpError(0, FALSE, NoHeader, TRUE),
          HttpError(404, FALSE, NoHeader, FALSE),
          HttpError(500, FALSE, NoHeader, FALSE)}

Stages == {"groups", "search", "modify", "create"}
NoFault == [stage |-> "none", err |-> HttpError(200, FALSE, NoHeader, FALSE)]
AllFaults == {NoFault} \cup [stage : Stages, err : HttpErrors]
\* The API answers a search with 404 only to say that nothing matches.
Faults == {f \in AllFaults : ~(f.stage = "search" /\ f.err.status = 404)}

\* A catch block that takes every 403 for a missing permission.
TypedErrorNoQuota(err) ==
    IF err.status = 429
    THEN [code |-> "RATE_LIMIT_TEMPORARY",
          retryAfter |-> IF err.header = NoHeader THEN DEFAULT_RETRY ELSE err.header]
    ELSE IF err.status = 403
    THEN [code |-> "PERMISSION_DENIED", retryAfter |-> 0]
    ELSE IF err.refreshFailed
    THEN [code |-> "TOKEN_INVALID", retryAfter |-> 0]
    ELSE IF err.status = 400 /\ err.quota
    THEN [code |-> "CONTACT_LIMIT_EXCEEDED", retryAfter |-> 0]
    ELSE [code |-> "UNKNOWN_ERROR", retryAfter |-> 0]

\* The catch block of saveContactWithLabel: the typed error that is thrown.
TypedError(err) ==
    IF err.status = 429
    THEN [code |-> "RATE_LIMIT_TEMPORARY",
          retryAfter |-> IF err.header = NoHeader THEN DEFAULT_RETRY ELSE err.header]
    ELSE IF err.status = 403
    THEN [code |-> IF err.quota THEN "CONTACT_LIMIT_EXCEEDED" ELSE "PERMISSION_DENIED",
          retryAfter |-> 0]
    ELSE IF err.refreshFailed
    THEN [code |-> "TOKEN_INVALID", retryAfter |-> 0]
    ELSE IF err.status = 400 /\ err.quota
    THEN [code |-> "CONTACT_LIMIT_EXCEEDED", retryAfter |-> 0]
    ELSE [code |-> "UNKNOWN_ERROR", retryAfter |-> 0]

Thrown(err, entries, calls) ==
    [status |-> "error", code |-> TypedError(err).code,
     retryAfter |-> TypedError(err).retryAfter, entries |-> entries, createCalls |-> calls]

CreateContact(entries, phone) ==
    [entries EXCEPT ![phone] = IF @ < 2 THEN @ + 1 ELSE @]

\* saveContactWithLabel(name, phone, labelName) on the account whose entries
\* are given, with the request of stage f.stage failing with f.err.
SaveContactWithLabel(entries, phone, f) ==
    IF f.stage = "groups" THEN Thrown(f.err, entries, 0)
    ELSE IF f.stage = "search" /\ f.err.status # 404 THEN Thrown(f.err, entries, 0)
    ELSE LET existingContact == IF f.stage = "search" THEN FALSE
                                ELSE SearchContactByPhone(entries, phone)
         IN  IF existingContact
             THEN IF f.stage = "modify" THEN Thrown(f.err, entries, 0)
                  ELSE [status |-> "existed", code |-> "", retryAfter |-> 0,
                        entries |-> entries, createCalls |-> 0]
             ELSE IF f.stage = "create" THEN Thrown(f.err, entries, 1)
                  ELSE [status |-> "created", code |-> "", retryAfter |-> 0,
                        entries |-> CreateContact(entries, phone), createCalls |-> 1]

\* ---------------------------------------------------------------- state
VARIABLES
    isRunning,      \* ContactSaverService.isRunning
    initialized,    \* ContactSaverService.initialized
    rateLimited,    \* ContactSaverService.rateLimitedCustomers: customer -> resume time (0: no entry)
    now,            \* Date.now(), in seconds
    callPc,         \* where each call of run() stands: "idle", "init", "batch"
    callIdx,        \* the loop index i of the batch loop of each call of run()
    started,        \* how often the current run of each call has called processCustomer for a customer
    tasks,          \* the processCustomer() promises of the current batch of each call
    columns,        \* the customers that have a phone column in the campaign tables
    status,         \* campaign table cell: status[t][p][c] in 0 (pending), 1, 2, 3
    errType,        \* cs_customers.last_error_type
    errNotified,    \* cs_customers.error_notified
    saveLog,        \* cs_save_log: the entries in the order they were inserted (when recorded)
    hourly,         \* cs_hourly_stats: the counters of each customer by status (when recorded)
    dir,            \* the directory entries of each account: phone form -> number of entries
    cnt,            \* the total contact count each account reports
    labels,         \* the labels of each account: campaign table -> number of labels with its formatted name
    cred,           \* the stored credentials of each account: "ok", "sealed" (they fail to decrypt), "none"
    audit,          \* what is recorded: "notifier" (the Notifier calls), "rows", "log"
    noticed,        \* the recorded kinds the Notifier was called with since the customer's last success
    restarted,      \* whether the process has been stopped and started again
    evt             \* what the step just taken did: the customer, the failure, the calls made

vars == <<isRunning, initialized, rateLimited, now, callPc, callIdx, started, tasks, columns, status,
          errType, errNotified, saveLog, hourly, dir, cnt, labels, cred, audit, noticed,
          restarted, evt>>

memory == <<isRunning, initialized, rateLimited, callPc, callIdx, started, tasks>>
store == <<columns, status, errType, errNotified, saveLog, hourly>>
google == <<dir, cnt, labels>>

NoTask == [st |-> "none", out |-> "", tbl |-> 0, todo |-> <<>>, best |-> 0,
           searched |-> FALSE, created |-> FALSE, halted |-> FALSE,
           flight |-> "", called |-> {}, limited |-> FALSE, wrote |-> {},
           read |-> [stage |-> "", kind |-> "", type |-> "", notified |-> FALSE]]
NoReq == [caller |-> "", first |-> 0, refreshOk |-> FALSE, second |-> 0,
          attempts |-> 0, refreshes |-> 0, thrown |-> 0]

NoEvt == [op |-> "", call |-> 0, cust |-> 0, kind |-> "", sent |-> 0, tbl |-> 0, phone |-> 0,
          found |-> 0, acct |-> 0, result |-> "", createCalls |-> 0,
          full |-> FALSE, unknown |-> FALSE, header |-> NoHeader, fault |-> NoFault,
          asked |-> {}, req |-> NoReq, retry |-> 0, names |-> {}, answer |-> 0, unique |-> 0,
          text |-> <<>>, fallback |-> <<>>, out |-> <<>>, best |-> -1, counts |-> <<>>,
          lookups |-> 0, listed |-> 0, groupCreates |-> 0,
          fullResults |-> {}, shortResults |-> {}, queries |-> 0, hit |-> FALSE,
          compared |-> 0]

Min(S) == CHOOSE x \in S : \A y \in S : x <= y

\* The status of a cs_save_log entry and the counters of cs_hourly_stats.
LogStatuses == {"saved", "existed", "error"}

\* logStatus of processCustomer: 'saved' for a created contact, 'existed' for
\* any other result, and 'error' in the catch block.
LogStatus(result) ==
    IF result = "created" THEN "saved" ELSE IF result = "error" THEN "error" ELSE "existed"

\* A log that keeps the successful attempts only.
LogSaveAttemptOnSuccess(c, t, p, logStatus) ==
    IF "log" \in audit /\ logStatus # "error"
    THEN /\ saveLog' = Append(saveLog, [customer |-> c, campaign |-> t, contact |-> p,
                                        status |-> logStatus])
         /\ hourly' = [hourly EXCEPT ![c][logStatus] = @ + 1]
    ELSE UNCHANGED <<saveLog, hourly>>

\* logSaveAttempt(customerPhone, campaignName, contactPhone, ..., status): an
\* INSERT into cs_save_log and the upsert that adds one to the counter of the
\* status in cs_hourly_stats.
LogSaveAttempt(c, t, p, logStatus) ==
    IF "log" \in audit
    THEN /\ saveLog' = Append(saveLog, [customer |-> c, campaign |-> t, contact |-> p,
                                        status |-> logStatus])
         /\ hourly' = [hourly EXCEPT ![c][logStatus] = @ + 1]
    ELSE UNCHANGED <<saveLog, hourly>>

\* The Record Store rows a statement touches, by table and key: a campaign
\* table row is keyed by the contact's phone (UPDATE ... WHERE Phone = ?), the
\* rows of cs_customers, cs_save_log and cs_hourly_stats carry the customer's
\* phone.
CampaignRow(t, p) == <<"campaign", t, p>>
CustomerRows(c) == {<<"cs_customers", c, 0>>}
LogRows(c) == {<<"cs_save_log", c, 0>>, <<"cs_hourly_stats", c, 0>>}

\* A notification that does not look at the notified flag.
SendErrorNotificationNoDedup(type, notified, errorType) ==
    IF errorType \notin Critical
    THEN [type |-> errorType, notified |-> FALSE, calls |-> 0]
    ELSE [type |-> errorType, notified |-> TRUE, calls |-> 1]

\* ------------------------------------------------------- Record Store
\* sendErrorNotification(customerPhone, errorType, ...) on the persisted error
\* state of one customer: the new state and the number of Notifier calls.
SendErrorNotification(type, notified, errorType) ==
    IF errorType \notin Critical
    THEN [type |-> errorType, notified |-> FALSE, calls |-> 0]
    ELSE IF type = errorType /\ notified
    THEN [type |-> type, notified |-> notified, calls |-> 0]
    ELSE [type |-> errorType, notified |-> TRUE, calls |-> 1]

\* getContactsToSave(tableName, customerPhone): the pending rows, in row order.
GetContactsToSave(st, t, c) ==
    SelectSeq([i \in 1..NumPhones |-> i], LAMBDA p : p \in RowsOf(t) /\ st[t][p][c] = 0)

\* The campaign loop of processCustomer from table t on: the first table
\* that has pending rows, with the rows read from it.
RECURSIVE NextCampaign(_, _, _)
NextCampaign(st, c, t) ==
    IF t > NumTables THEN [tbl |-> 0, todo |-> <<>>]
    ELSE IF GetContactsToSave(st, t, c) # <<>>
         THEN [tbl |-> t, todo |-> GetContactsToSave(st, t, c)]
         ELSE NextCampaign(st, c, t + 1)

\* ------------------------------------------------------- Orchestrator helpers
GetContactCount(a, ok) == IF ok THEN cnt[a] ELSE NullCount

\* getAllCustomerAccounts(phone): the rows of the customer that have both
\* tokens; a token that fails to decrypt is kept as it is stored.
GetAllCustomerAccounts(c) == {a \in AccountsOf(c) : cred[a] # "none"}

\* The answers of the Directory API to one request per account: a request
\* that carries a stored token that was not decrypted is never answered.
Replies(c, Answers) ==
    {ok \in [AccountsOf(c) -> Answers \cup {FALSE}] :
        \A a \in AccountsOf(c) : IF cred[a] = "ok" THEN ok[a] \in Answers ELSE ~ok[a]}

\* A capacity check that takes an account at the ceiling as usable.
AllAccountsFullInclusive(c, ok) ==
    \A a \in GetAllCustomerAccounts(c) :
        ~(GetContactCount(a, ok[a]) # NullCount /\ GetContactCount(a, ok[a]) <= CEILING)

AllAccountsFull(c, ok) ==
    \A a \in GetAllCustomerAccounts(c) :
        ~(GetContactCount(a, ok[a]) # NullCount /\ GetContactCount(a, ok[a]) < CEILING)

RECURSIVE BestFrom(_, _, _, _)
BestFrom(todo, ok, bestAccount, minContacts) ==
    IF todo = {} THEN bestAccount
    ELSE LET a == Min(todo)
             count == GetContactCount(a, ok[a])
         IN  IF count # NullCount /\ (bestAccount = 0 \/ count < minContacts) /\ count < CEILING
             THEN BestFrom(todo \ {a}, ok, a, count)
             ELSE BestFrom(todo \ {a}, ok, bestAccount, minContacts)

\* A choice of the first account whose count is known.
GetFirstAccountForSaving(c, ok) ==
    LET known == {a \in GetAllCustomerAccounts(c) : ok[a]}
    IN  IF known = {} THEN 0 ELSE Min(known)

\* getBestAccountForSaving(googleServices) (0: null).
GetBestAccountForSaving(c, ok) ==
    BestFrom(GetAllCustomerAccounts(c), ok, 0, 0)

ContactExistsInAnyAccount(c, ok, phone) ==
    LET hits == {a \in GetAllCustomerAccounts(c) : ok[a] /\ SearchContactByPhone(dir[a], phone)}
    IN  IF hits = {} THEN 0 ELSE Min(hits)

CustomerPhoneArray == [i \in 1..Cardinality(columns) |->
                          CHOOSE c \in columns : Cardinality({d \in columns : d < c}) = i - 1]

Settled(k) == \A c \in Customers : tasks[k][c].st \in {"none", "done"}

\* ------------------------------------------------------------- run()
\* A timer tick or a manual trigger calls run(): the single-flight guard, and
\* the call of initialize(), which awaits the Record Store unless the service
\* is initialized already.
Run(k) ==
    /\ callPc[k] = "idle"
    /\ \A j \in Calls : callPc[j] = "idle" => k <= j
    /\ IF isRunning
       THEN UNCHANGED <<isRunning, callPc, callIdx, started>>
       ELSE IF initialized
       THEN /\ isRunning' = TRUE
            /\ callPc' = [callPc EXCEPT ![k] = "batch"]
            /\ callIdx' = [callIdx EXCEPT ![k] = 0]
            /\ started' = [started EXCEPT ![k] = [c \in Customers |-> 0]]
       ELSE /\ callPc' = [callPc EXCEPT ![k] = "init"]
            /\ UNCHANGED <<isRunning, callIdx, started>>
    /\ evt' = NoEvt
    /\ UNCHANGED <<initialized, rateLimited, now, tasks, store, google, audit, cred, noticed, restarted>>

\* initialize() returns (its failure is logged and swallowed); run() sets
\* isRunning and enters its try block.
Initialize(k) ==
    /\ callPc[k] = "init"
    /\ \E ok \in BOOLEAN : initialized' = (initialized \/ ok)
    /\ isRunning' = TRUE
    /\ callPc' = [callPc EXCEPT ![k] = "batch"]
    /\ callIdx' = [callIdx EXCEPT ![k] = 0]
    /\ started' = [started EXCEPT ![k] = [c \in Customers |-> 0]]
    /\ evt' = NoEvt
    /\ UNCHANGED <<rateLimited, now, tasks, store, google, audit, cred, noticed, restarted>>

\* A guard that holds a customer back as long as it has a resume time.
RateLimitedForEver(c) ==
    rateLimited[c] # 0

\* The rate-limit guard of processCustomer: the customer has a resume time
\* and the clock has not reached it.
RateLimited(c) ==
    rateLimited[c] # 0 /\ now < rateLimited[c]

\* A batch loop that stops at the first task that was rejected or that met a
\* critical error.
StartBatchUnlessFailed(k) ==
    /\ callPc[k] = "batch"
    /\ Settled(k)
    /\ \A c \in Customers : tasks[k][c].out # "rejected" /\ ~tasks[k][c].halted
    /\ callIdx[k] < Len(CustomerPhoneArray)
    /\ LET batch == {CustomerPhoneArray[i] :
                        i \in ((callIdx[k] + 1)..(callIdx[k] + BATCH_SIZE))
                              \cap (DOMAIN CustomerPhoneArray)}
       IN  /\ tasks' = [tasks EXCEPT ![k] = [c \in Customers |->
                IF c \notin batch THEN NoTask
                ELSE IF RateLimited(c)
                THEN [NoTask EXCEPT !.st = "done", !.out = "rate_limited"]
                ELSE [NoTask EXCEPT !.st = "load"]]]
           /\ started' = [started EXCEPT ![k] = [c \in Customers |->
                IF c \in batch THEN @[c] + 1 ELSE @[c]]]
    /\ callIdx' = [callIdx EXCEPT ![k] = @ + BATCH_SIZE]
    /\ evt' = NoEvt
    /\ UNCHANGED <<isRunning, initialized, rateLimited, now, callPc, store, google, audit, cred, noticed, restarted>>

\* One iteration of the batch loop: processCustomer(phone, tables) is called
\* for every customer of the batch; each call runs up to its first await,
\* that is through the rate-limit guard.
StartBatch(k) ==
    /\ callPc[k] = "batch"
    /\ Settled(k)
    /\ callIdx[k] < Len(CustomerPhoneArray)
    /\ LET batch == {CustomerPhoneArray[i] :
                        i \in ((callIdx[k] + 1)..(callIdx[k] + BATCH_SIZE))
                              \cap (DOMAIN CustomerPhoneArray)}
       IN  /\ tasks' = [tasks EXCEPT ![k] = [c \in Customers |->
                IF c \notin batch THEN NoTask
                ELSE IF RateLimited(c)
                THEN [NoTask EXCEPT !.st = "done", !.out = "rate_limited"]
                ELSE [NoTask EXCEPT !.st = "load"]]]
           /\ started' = [started EXCEPT ![k] = [c \in Customers |->
                IF c \in batch THEN @[c] + 1 ELSE @[c]]]
    /\ callIdx' = [callIdx EXCEPT ![k] = @ + BATCH_SIZE]
    /\ evt' = NoEvt
    /\ UNCHANGED <<isRunning, initialized, rateLimited, now, callPc, store, google, audit, cred, noticed, restarted>>

\* A run that ends as soon as the tasks of a batch are settled.
FinishRunEarly(k) ==
    /\ callPc[k] = "batch"
    /\ Settled(k)
    /\ callIdx[k] > 0
    /\ isRunning' = FALSE
    /\ callPc' = [callPc EXCEPT ![k] = "idle"]
    /\ callIdx' = [callIdx EXCEPT ![k] = 0]
    /\ started' = [started EXCEPT ![k] = [c \in Customers |-> 0]]
    /\ tasks' = [tasks EXCEPT ![k] = [c \in Customers |-> NoTask]]
    /\ evt' = NoEvt
    /\ UNCHANGED <<initialized, rateLimited, now, store, google, audit, cred, noticed, restarted>>

\* The batch loop is over: the finally block resets isRunning.
FinishRun(k) ==
    /\ callPc[k] = "batch"
    /\ Settled(k)
    /\ callIdx[k] >= Len(CustomerPhoneArray)
    /\ isRunning' = FALSE
    /\ callPc' = [callPc EXCEPT ![k] = "idle"]
    /\ callIdx' = [callIdx EXCEPT ![k] = 0]
    /\ started' = [started EXCEPT ![k] = [c \in Customers |-> 0]]
    /\ tasks' = [tasks EXCEPT ![k] = [c \in Customers |-> NoTask]]
    /\ evt' = NoEvt
    /\ UNCHANGED <<initialized, rateLimited, now, store, google, audit, cred, noticed, restarted>>

\* A label lookup that creates the label whatever the listing holds.
CreateContactGroupAlways(n, listOk, createOk) ==
    IF ~listOk THEN [count |-> n, lists |-> 1, creates |-> 0, status |-> "error"]
    ELSE IF createOk THEN [count |-> n + 1, lists |-> 1, creates |-> 1, status |-> "created"]
    ELSE [count |-> n, lists |-> 1, creates |-> 1, status |-> "error"]

\* getOrCreateContactGroup(name) on an account that holds n labels with that
\* name: the requests made (contactGroups list, contactGroups create), the
\* labels the account holds afterwards, and what the call returns.
GetOrCreateContactGroup(n, listOk, createOk) ==
    IF ~listOk THEN [count |-> n, lists |-> 1, creates |-> 0, status |-> "error"]
    ELSE IF n > 0 THEN [count |-> n, lists |-> 1, creates |-> 0, status |-> "existing"]
    ELSE IF createOk THEN [count |-> n + 1, lists |-> 1, creates |-> 1, status |-> "created"]
    ELSE [count |-> n, lists |-> 1, creates |-> 1, status |-> "error"]

\* A save that does not look at the existence check.
SaveAlways(existsCheck, entries, phone, f) ==
    SaveContactWithLabel(entries, phone, f)

\* --------------------------------------------------------- processCustomer
\* The branch of processCustomer on the existence check: a contact found in
\* one of the accounts is existed, any other is saved to the best account.
SaveUnlessExists(existsCheck, entries, phone, f) ==
    IF existsCheck # 0
    THEN [status |-> "existed", code |-> "", retryAfter |-> 0,
          entries |-> entries, createCalls |-> 0]
    ELSE SaveContactWithLabel(entries, phone, f)

\* A save that goes to the first account of the customer.
SaveTargetFirst(tk, c) ==
    Min(GetAllCustomerAccounts(c))

\* The account whose service saves the contacts of a task: bestAccount.
SaveTarget(tk, c) ==
    tk.best

\* What a call of sendErrorNotification leaves in the store and in the
\* Notifier's record, for customer c and error kind K.
Notify(c, K) ==
    LET r == SendErrorNotification(errType[c], errNotified[c], K)
    IN  /\ errType' = [errType EXCEPT ![c] = r.type]
        /\ errNotified' = [errNotified EXCEPT ![c] = r.notified]
        /\ noticed' = IF "notifier" \in audit /\ r.calls > 0 THEN [noticed EXCEPT ![c] = @ \cup {K}] ELSE noticed

\* processCustomer from the load of the accounts to the choice of the best
\* account: the capacity queries, the CONTACT_LIMIT_MAX check and the read of
\* the first campaign's pending rows.
LoadCustomer(k, c, Answers) ==
    /\ tasks[k][c].st = "load"
    /\ \E ok1 \in Replies(c, Answers), ok2 \in Replies(c, Answers) :
        LET allAccountsFull == AllAccountsFull(c, ok1)
            bestAccount == GetBestAccountForSaving(c, ok2)
            first == NextCampaign(status, c, 1)
            \* updateCustomerContactCount(customerPhone, totalContactCount)
            Counted == [NoTask EXCEPT !.wrote = IF "rows" \in audit THEN CustomerRows(c) ELSE {}]
            seen == [NoEvt EXCEPT
                        !.op = "load", !.call = k, !.cust = c,
                        !.full = \A a \in AccountsOf(c) : ok1[a] /\ cnt[a] >= CEILING,
                        !.unknown = \E a \in AccountsOf(c) : ~ok1[a],
                        !.asked = GetAllCustomerAccounts(c)]
        IN  IF GetAllCustomerAccounts(c) = {}
            THEN /\ UNCHANGED <<errType, errNotified, noticed>>
                 /\ evt' = seen
                 /\ tasks' = [tasks EXCEPT ![k][c] =
                                [NoTask EXCEPT !.st = "done", !.out = "no_tokens"]]
            ELSE IF allAccountsFull
            THEN /\ Notify(c, "CONTACT_LIMIT_MAX")
                 /\ evt' = [seen EXCEPT !.kind = "CONTACT_LIMIT_MAX",
                                         !.sent = SendErrorNotification(errType[c], errNotified[c],
                                                                        "CONTACT_LIMIT_MAX").calls]
                 /\ tasks' = [tasks EXCEPT ![k][c] =
                                [Counted EXCEPT !.st = "done", !.out = "contact_limit_max"]]
            ELSE /\ UNCHANGED <<errType, errNotified, noticed>>
                 /\ evt' = [seen EXCEPT !.best = bestAccount,
                                         !.counts = [a \in GetAllCustomerAccounts(c) |->
                                                        GetContactCount(a, ok2[a])]]
                 /\ tasks' = [tasks EXCEPT ![k][c] =
                        IF bestAccount = 0
                        THEN [Counted EXCEPT !.st = "done", !.out = "no_valid_account"]
                        ELSE IF first.tbl = 0
                        THEN [Counted EXCEPT !.st = "done", !.out = "processed", !.best = bestAccount]
                        ELSE [Counted EXCEPT !.st = "run", !.best = bestAccount,
                                          !.tbl = first.tbl, !.todo = first.todo]]
    /\ UNCHANGED <<isRunning, initialized, rateLimited, now, callPc, callIdx, started, columns, status,
                   saveLog, hourly,
                   google, audit, cred, restarted>>

\* One iteration of the contact loop of processCustomer, with what follows it
\* up to the next contact: the end of the campaign and the read of the next
\* campaign's pending rows, or the return of processCustomer.
ProcessContact(k, c, Answers, Failures) ==
    /\ tasks[k][c].st = "run"
    /\ tasks[k][c].read = NoTask.read
    /\ \E ok \in Replies(c, Answers) :
        LET tk == tasks[k][c]
            t == tk.tbl
            p == Head(tk.todo)
            existsCheck == ContactExistsInAnyAccount(c, ok, Local(p))
        IN  \E f \in IF existsCheck # 0 THEN {NoFault} ELSE Failures :
        LET result == SaveUnlessExists(existsCheck, dir[SaveTarget(tk, c)], Local(p), f)
            errorCode == result.code
            break == errorCode \in {"RATE_LIMIT_TEMPORARY", "CONTACT_LIMIT_EXCEEDED",
                                    "TOKEN_INVALID", "PERMISSION_DENIED"}
            newStatus == IF result.status = "created" THEN 1 ELSE 2
            status1 == IF result.status = "error" THEN status
                       ELSE [status EXCEPT ![t][p][c] = newStatus]
            next == IF ~break /\ Tail(tk.todo) # <<>>
                    THEN [tbl |-> t, todo |-> Tail(tk.todo)]
                    ELSE NextCampaign(status1, c, t + 1)
            tk1 == [tk EXCEPT !.searched = TRUE,
                              !.created = @ \/ result.createCalls > 0,
                              !.halted = @ \/ errorCode \in Critical,
                              !.limited = @ \/ errorCode = "RATE_LIMIT_TEMPORARY",
                              !.wrote = IF "rows" \notin audit THEN @
                                        ELSE @ \cup LogRows(c)
                                               \cup (IF result.status # "error" THEN {CampaignRow(t, p)}
                                                     ELSE {})
                                               \cup (IF result.status # "error" \/ break
                                                     THEN CustomerRows(c) ELSE {})]
            notice == SendErrorNotification(errType[c], errNotified[c], errorCode)
        IN  /\ status' = status1
            /\ LogSaveAttempt(c, t, p, LogStatus(result.status))
            /\ dir' = [dir EXCEPT ![SaveTarget(tk, c)] = result.entries]
            /\ cnt' = [cnt EXCEPT ![SaveTarget(tk, c)] = IF result.status = "created" THEN @ + 1 ELSE @]
            /\ labels' = IF existsCheck # 0 THEN labels
                         ELSE [labels EXCEPT ![SaveTarget(tk, c)][t] =
                                 GetOrCreateContactGroup(@, f.stage # "groups", TRUE).count]
            /\ tasks' = [tasks EXCEPT ![k][c] =
                   IF next.tbl = 0
                   THEN [tk1 EXCEPT !.st = "done", !.out = "processed", !.tbl = 0, !.todo = <<>>]
                   ELSE [tk1 EXCEPT !.tbl = next.tbl, !.todo = next.todo]]
            /\ evt' = [NoEvt EXCEPT !.op = "contact", !.call = k, !.cust = c,
                       !.kind = errorCode, !.sent = IF break THEN notice.calls ELSE 0,
                       !.tbl = t, !.phone = p, !.found = existsCheck, !.acct = SaveTarget(tk, c),
                       !.result = result.status, !.createCalls = result.createCalls,
                       !.header = IF result.status = "error" THEN f.err.header ELSE NoHeader,
                       !.lookups = IF existsCheck # 0 THEN 0
                                   ELSE GetOrCreateContactGroup(labels[SaveTarget(tk, c)][t],
                                                                f.stage # "groups", TRUE).lists,
                       !.asked = IF existsCheck # 0
                                 THEN {a \in GetAllCustomerAccounts(c) : a <= existsCheck}
                                 ELSE GetAllCustomerAccounts(c) \cup {SaveTarget(tk, c)}]
            /\ IF result.status # "error"
               THEN \* logSaveAttempt('saved' | 'existed') clears last_error_type
                    /\ errType' = [errType EXCEPT ![c] = NoError]
                    /\ noticed' = [noticed EXCEPT ![c] = {}]
                    /\ UNCHANGED <<errNotified, rateLimited>>
               ELSE IF errorCode = "RATE_LIMIT_TEMPORARY"
               THEN /\ rateLimited' = [rateLimited EXCEPT ![c] =
                            now + (IF result.retryAfter = 0 THEN DEFAULT_RETRY ELSE result.retryAfter)]
                    /\ Notify(c, errorCode)
               ELSE IF break
               THEN /\ Notify(c, errorCode)
                    /\ UNCHANGED rateLimited
               ELSE UNCHANGED <<errType, errNotified, noticed, rateLimited>>
    /\ UNCHANGED <<isRunning, initialized, now, callPc, callIdx, started, columns, audit, cred, restarted>>

\* The per-contact body of processCustomer in its two halves, for a contact
\* whose Directory calls succeed: the existence check and the save, whose
\* result the task holds in memory, and then the status write and the log.
CallDirectory(k, c, Answers) ==
    /\ tasks[k][c].st = "run"
    /\ tasks[k][c].flight = ""
    /\ \E ok \in Replies(c, Answers) :
        LET tk == tasks[k][c]
            p == Head(tk.todo)
            existsCheck == ContactExistsInAnyAccount(c, ok, Local(p))
            result == SaveUnlessExists(existsCheck, dir[tk.best], Local(p), NoFault)
        IN  /\ result.status # "error"
            /\ dir' = [dir EXCEPT ![tk.best] = result.entries]
            /\ cnt' = [cnt EXCEPT ![tk.best] = IF result.status = "created" THEN @ + 1 ELSE @]
            /\ labels' = IF existsCheck # 0 THEN labels
                         ELSE [labels EXCEPT ![tk.best][tk.tbl] =
                                 GetOrCreateContactGroup(@, TRUE, TRUE).count]
            /\ tasks' = [tasks EXCEPT ![k][c] =
                   [tk EXCEPT !.searched = TRUE,
                              !.created = @ \/ result.createCalls > 0,
                              !.flight = result.status,
                              !.called = @ \cup {<<tk.tbl, p>>}]]
            /\ evt' = [NoEvt EXCEPT !.op = "call", !.call = k, !.cust = c, !.tbl = tk.tbl,
                       !.phone = p, !.found = existsCheck, !.acct = tk.best,
                       !.result = result.status, !.createCalls = result.createCalls]
    /\ UNCHANGED <<isRunning, initialized, rateLimited, now, callPc, callIdx, started, store, audit, cred,
                   noticed, restarted>>

\* A write that moves on to the next contact and leaves the status for later.
WriteStatusLater(k, c) ==
    /\ tasks[k][c].st = "run"
    /\ tasks[k][c].flight # ""
    /\ LET tk == tasks[k][c]
           next == IF Tail(tk.todo) # <<>>
                   THEN [tbl |-> tk.tbl, todo |-> Tail(tk.todo)]
                   ELSE NextCampaign(status, c, tk.tbl + 1)
       IN  /\ tasks' = [tasks EXCEPT ![k][c] =
                  IF next.tbl = 0
                  THEN [tk EXCEPT !.st = "done", !.out = "processed", !.tbl = 0,
                                  !.todo = <<>>, !.flight = ""]
                  ELSE [tk EXCEPT !.tbl = next.tbl, !.todo = next.todo, !.flight = ""]]
           /\ evt' = [NoEvt EXCEPT !.op = "write", !.call = k, !.cust = c, !.tbl = tk.tbl,
                      !.phone = Head(tk.todo), !.result = tk.flight]
    /\ UNCHANGED <<isRunning, initialized, rateLimited, now, callPc, callIdx, started, store, google,
                   audit, cred, noticed, restarted>>

WriteStatus(k, c) ==
    /\ tasks[k][c].st = "run"
    /\ tasks[k][c].flight # ""
    /\ LET t == tasks[k][c].tbl
           p == Head(tasks[k][c].todo)
           tk == [tasks[k][c] EXCEPT !.wrote = IF "rows" \notin audit THEN @
                       ELSE @ \cup {CampaignRow(t, p)} \cup LogRows(c) \cup CustomerRows(c)]
           status1 == [status EXCEPT ![t][p][c] = IF tk.flight = "created" THEN 1 ELSE 2]
           next == IF Tail(tk.todo) # <<>>
                   THEN [tbl |-> t, todo |-> Tail(tk.todo)]
                   ELSE NextCampaign(status1, c, t + 1)
       IN  /\ status' = status1
           /\ LogSaveAttempt(c, t, p, LogStatus(tasks[k][c].flight))
           /\ errType' = [errType EXCEPT ![c] = NoError]
           /\ noticed' = [noticed EXCEPT ![c] = {}]
           /\ tasks' = [tasks EXCEPT ![k][c] =
                  IF next.tbl = 0
                  THEN [tk EXCEPT !.st = "done", !.out = "processed", !.tbl = 0,
                                  !.todo = <<>>, !.flight = ""]
                  ELSE [tk EXCEPT !.tbl = next.tbl, !.todo = next.todo, !.flight = ""]]
           /\ evt' = [NoEvt EXCEPT !.op = "write", !.call = k, !.cust = c, !.tbl = t,
                      !.phone = p, !.result = tk.flight]
    /\ UNCHANGED <<isRunning, initialized, rateLimited, now, callPc, callIdx, started, columns,
                   errNotified, google, audit, cred, restarted>>

\* A Record Store operation of processCustomer throws (getAllCustomerAccounts,
\* getContactsToSave, logSaveAttempt in the catch block): the promise of the
\* task is rejected, which Promise.allSettled records and run() logs.
RejectTask(k, c) ==
    /\ tasks[k][c].st \in {"load", "run"}
    /\ tasks[k][c].flight = ""
    /\ tasks' = [tasks EXCEPT ![k][c] = [@ EXCEPT !.st = "done", !.out = "rejected"]]
    /\ evt' = [NoEvt EXCEPT !.op = "reject", !.call = k, !.cust = c]
    /\ UNCHANGED <<isRunning, initialized, rateLimited, now, callPc, callIdx, started, store, google,
                   audit, cred, noticed, restarted>>

\* The break out of the contact loop after sendErrorNotification returned:
\* the task goes on with the next campaign, or returns.
LeaveCampaign(tk, c) ==
    LET next == NextCampaign(status, c, tk.tbl + 1)
    IN  IF next.tbl = 0
        THEN [tk EXCEPT !.st = "done", !.out = "processed", !.tbl = 0, !.todo = <<>>,
                        !.read = NoTask.read]
        ELSE [tk EXCEPT !.tbl = next.tbl, !.todo = next.todo, !.read = NoTask.read]

\* sendErrorNotification in its awaited steps.  First the save of a contact
\* throws the critical kind K, the catch block logs the attempt and calls
\* sendErrorNotification, which reads the persisted error state of the
\* customer (getCustomerErrorState).
GetCustomerErrorState(k, c, K) ==
    /\ tasks[k][c].st = "run"
    /\ tasks[k][c].flight = ""
    /\ tasks[k][c].read = NoTask.read
    /\ K \in Critical
    /\ tasks' = [tasks EXCEPT ![k][c] =
           [@ EXCEPT !.searched = TRUE, !.halted = TRUE,
                     !.wrote = IF "rows" \in audit THEN @ \cup LogRows(c) ELSE @,
                     !.read = [stage |-> "read", kind |-> K,
                               type |-> errType[c], notified |-> errNotified[c]]]]
    /\ evt' = [NoEvt EXCEPT !.op = "read", !.call = k, !.cust = c, !.kind = K,
                            !.tbl = tasks[k][c].tbl, !.phone = Head(tasks[k][c].todo),
                            !.result = "error"]
    /\ LogSaveAttempt(c, tasks[k][c].tbl, Head(tasks[k][c].todo), "error")
    /\ UNCHANGED <<isRunning, initialized, rateLimited, now, callPc, callIdx, started, columns, status,
                   errType, errNotified, google, audit, cred, noticed, restarted>>

\* Then the test of alreadyNotified on what was read: a duplicate returns, any
\* other failure is written with notified = true (updateCustomerError, which
\* logs and swallows a failure of its statement: ok tells whether it wrote).
UpdateCustomerError(k, c, ok) ==
    /\ tasks[k][c].read.stage = "read"
    /\ LET tk == tasks[k][c]
           alreadyNotified == tk.read.type = tk.read.kind /\ tk.read.notified
       IN  IF alreadyNotified
           THEN /\ ok
                /\ tasks' = [tasks EXCEPT ![k][c] = LeaveCampaign(tk, c)]
                /\ evt' = [NoEvt EXCEPT !.op = "skip", !.call = k, !.cust = c, !.kind = tk.read.kind]
                /\ UNCHANGED <<errType, errNotified>>
           ELSE /\ tasks' = [tasks EXCEPT ![k][c] =
                       [tk EXCEPT !.read.stage = "written",
                                  !.wrote = IF "rows" \in audit /\ ok THEN @ \cup CustomerRows(c) ELSE @]]
                /\ evt' = [NoEvt EXCEPT !.op = "update", !.call = k, !.cust = c, !.kind = tk.read.kind,
                                        !.result = IF ok THEN "written" ELSE "error"]
                /\ errType' = IF ok THEN [errType EXCEPT ![c] = tk.read.kind] ELSE errType
                /\ errNotified' = IF ok THEN [errNotified EXCEPT ![c] = TRUE] ELSE errNotified
    /\ UNCHANGED <<isRunning, initialized, rateLimited, now, callPc, callIdx, started, columns, status,
                   saveLog, hourly,
                   google, audit, cred, noticed, restarted>>

\* A delivery whose failure is thrown out of sendErrorNotification and out of
\* the catch block of processCustomer.
PostNotificationOrThrow(k, c, ok) ==
    /\ tasks[k][c].read.stage = "written"
    /\ tasks' = [tasks EXCEPT ![k][c] =
           IF ok THEN LeaveCampaign(@, c)
           ELSE [@ EXCEPT !.st = "done", !.out = "rejected", !.read = NoTask.read]]
    /\ noticed' = IF "notifier" \in audit THEN [noticed EXCEPT ![c] = @ \cup {tasks[k][c].read.kind}] ELSE noticed
    /\ evt' = [NoEvt EXCEPT !.op = "deliver", !.call = k, !.cust = c, !.sent = 1,
                            !.kind = tasks[k][c].read.kind,
                            !.result = IF ok THEN "delivered" ELSE "failed"]
    /\ UNCHANGED <<isRunning, initialized, rateLimited, now, callPc, callIdx, started, store, google,
                   audit, cred, restarted>>

\* Last the delivery: axios.post to the Notifier inside try/catch, its failure
\* is logged; sendErrorNotification returns and the contact loop breaks.
PostNotification(k, c, ok) ==
    /\ tasks[k][c].read.stage = "written"
    /\ tasks' = [tasks EXCEPT ![k][c] = LeaveCampaign(@, c)]
    /\ noticed' = IF "notifier" \in audit THEN [noticed EXCEPT ![c] = @ \cup {tasks[k][c].read.kind}] ELSE noticed
    /\ evt' = [NoEvt EXCEPT !.op = "deliver", !.call = k, !.cust = c, !.sent = 1,
                            !.kind = tasks[k][c].read.kind,
                            !.result = IF ok THEN "delivered" ELSE "failed"]
    /\ UNCHANGED <<isRunning, initialized, rateLimited, now, callPc, callIdx, started, store, google,
                   audit, cred, restarted>>

\* A run whose failed discovery leaves through the catch block alone, with
\* no finally block.
FailRunNoFinally(k) ==
    /\ callPc[k] = "batch"
    /\ callIdx[k] = 0
    /\ Settled(k)
    /\ UNCHANGED isRunning
    /\ callPc' = [callPc EXCEPT ![k] = "idle"]
    /\ tasks' = [tasks EXCEPT ![k] = [c \in Customers |-> NoTask]]
    /\ evt' = [NoEvt EXCEPT !.op = "abort", !.call = k, !.result = "resolved"]
    /\ UNCHANGED <<initialized, rateLimited, now, callIdx, started, store, google, audit, cred, noticed,
                   restarted>>

\* A Record Store operation of run() itself throws (syncCustomers,
\* getContactTables, getPhoneColumns): the catch block logs the error, the
\* finally block resets isRunning, and the promise of run() resolves.
FailRun(k) ==
    /\ callPc[k] = "batch"
    /\ callIdx[k] = 0
    /\ Settled(k)
    /\ isRunning' = FALSE
    /\ callPc' = [callPc EXCEPT ![k] = "idle"]
    /\ tasks' = [tasks EXCEPT ![k] = [c \in Customers |-> NoTask]]
    /\ evt' = [NoEvt EXCEPT !.op = "abort", !.call = k, !.result = "resolved"]
    /\ UNCHANGED <<initialized, rateLimited, now, callIdx, started, store, google, audit, cred, noticed,
                   restarted>>

\* ------------------------------------------------------------ environment
Tick ==
    /\ now < MaxTime
    /\ now' = now + 1
    /\ evt' = NoEvt
    /\ UNCHANGED <<memory, store, google, audit, cred, noticed, restarted>>

\* A restart of a service that keeps the notified flags in memory.
RestartForgets ==
    /\ isRunning' = FALSE
    /\ initialized' = FALSE
    /\ rateLimited' = [c \in Customers |-> 0]
    /\ callPc' = [k \in Calls |-> "idle"]
    /\ callIdx' = [k \in Calls |-> 0]
    /\ started' = [k \in Calls |-> [c \in Customers |-> 0]]
    /\ tasks' = [k \in Calls |-> [c \in Customers |-> NoTask]]
    /\ errNotified' = [c \in Customers |-> FALSE]
    /\ evt' = [NoEvt EXCEPT !.op = "restart"]
    /\ restarted' = TRUE
    /\ UNCHANGED <<now, columns, saveLog, hourly, status, errType, google, audit, cred, noticed>>

\* The process is stopped and started again: the constructor runs, the
\* Record Store and the directories stay as they are.
Restart ==
    /\ isRunning' = FALSE
    /\ initialized' = FALSE
    /\ rateLimited' = [c \in Customers |-> 0]
    /\ callPc' = [k \in Calls |-> "idle"]
    /\ callIdx' = [k \in Calls |-> 0]
    /\ started' = [k \in Calls |-> [c \in Customers |-> 0]]
    /\ tasks' = [k \in Calls |-> [c \in Customers |-> NoTask]]
    /\ evt' = [NoEvt EXCEPT !.op = "restart"]
    /\ restarted' = TRUE
    /\ UNCHANGED <<now, store, google, audit, cred, noticed>>

\* markContactsAsNotSaving(customerPhone), the operator's request: every
\* pending row of the customer becomes excluded (3).
MarkContactsAsNotSaving(c) ==
    /\ c \in columns
    /\ status' = [t \in Tables |-> [p \in Phones |-> [d \in Customers |->
                    IF d = c /\ p \in RowsOf(t) /\ status[t][p][d] = 0
                    THEN 3 ELSE status[t][p][d]]]]
    /\ evt' = [NoEvt EXCEPT !.op = "mark", !.cust = c]
    /\ UNCHANGED <<memory, now, columns, saveLog, hourly, errType, errNotified, google, audit, cred,
                   noticed,
                   restarted>>

\* ------------------------------------------------------------ specification
\* The service after construction, with one customer that has a column in the
\* campaign tables and every row pending; holder is the account that holds
\* the first phone already, in its international form (0: no account).
StartWith(holder, counts, cols, st) ==
    /\ isRunning = FALSE
    /\ initialized = FALSE
    /\ rateLimited = [c \in Customers |-> 0]
    /\ now = 0
    /\ callPc = [k \in Calls |-> "idle"]
    /\ callIdx = [k \in Calls |-> 0]
    /\ started = [k \in Calls |-> [c \in Customers |-> 0]]
    /\ tasks = [k \in Calls |-> [c \in Customers |-> NoTask]]
    /\ columns = cols
    /\ status = st
    /\ errType = [c \in Customers |-> NoError]
    /\ errNotified = [c \in Customers |-> FALSE]
    /\ saveLog = <<>>
    /\ hourly = [c \in Customers |-> [s \in LogStatuses |-> 0]]
    /\ dir = [a \in Accounts |-> [e \in Entries |->
                 IF a = holder /\ e = Intl(1) THEN 1 ELSE 0]]
    /\ cnt = [a \in Accounts |-> counts[((a + 1) % 2) + 1]]
    /\ noticed = [c \in Customers |-> {}]
    /\ restarted = FALSE
    /\ evt = NoEvt

Usable == [a \in Accounts |-> "ok"]

\* Accounts that hold the label of every campaign table, from earlier passes.
Labelled == [a \in Accounts |-> [t \in Tables |-> 1]]

Start(holder, counts) ==
    StartWith(holder, counts, {1}, [t \in Tables |-> [p \in Phones |-> [c \in Customers |-> 0]]])

Init ==
    /\ \E holder \in {0} \cup AccountsOf(1) : Start(holder, <<10, 20>>)
    /\ audit = {}
    /\ cred = Usable
    /\ labels = Labelled

\* Runs that are triggered one at a time; the Directory API answers the count
\* requests, and answers or fails the searches and the requests of a save.
Next ==
    \/ Run(1)
    \/ Initialize(1)
    \/ StartBatch(1)
    \/ FinishRun(1)
    \/ \E c \in Customers : LoadCustomer(1, c, {TRUE})
    \/ \E c \in Customers : ProcessContact(1, c, BOOLEAN, Faults)

Spec == Init /\ [][Next]_vars

\* The same, with the calls of the Notifier recorded.
InitNotify ==
    /\ Start(0, <<10, 20>>)
    /\ audit = {"notifier"}
    /\ cred = Usable
    /\ labels = Labelled

SpecNotify == InitNotify /\ [][Next]_vars

\* Triggers that arrive at any time, also while an earlier call of run() is
\* awaiting initialize(); the Directory API answers every request.
InitRun ==
    /\ Start(0, <<10, 20>>)
    /\ audit = {}
    /\ cred = Usable
    /\ labels = Labelled

NextRun ==
    \/ \E k \in Calls : Run(k)
    \/ \E k \in Calls : Initialize(k)
    \/ \E k \in Calls : StartBatch(k)
    \/ \E k \in Calls : FinishRun(k)
    \/ \E k \in Calls, c \in Customers : LoadCustomer(k, c, {TRUE})
    \/ \E k \in Calls, c \in Customers : ProcessContact(k, c, {TRUE}, {NoFault})

SpecRun == InitRun /\ [][NextRun]_vars

\* Runs one at a time while the clock advances; the Directory API answers
\* the requests or rejects them with HTTP 429.
RateFaults == {NoFault} \cup [stage : {"create"}, err : {HttpError(429, FALSE, h, FALSE) : h \in Headers}]

NextClock ==
    \/ Run(1)
    \/ Initialize(1)
    \/ StartBatch(1)
    \/ FinishRun(1)
    \/ \E c \in Customers : LoadCustomer(1, c, {TRUE})
    \/ \E c \in Customers : ProcessContact(1, c, {TRUE}, RateFaults)
    \/ Tick

SpecClock == Init /\ [][NextClock]_vars

\* Runs one at a time over accounts at or near the ceiling; the capacity
\* query of an account may fail.
InitCapacity ==
    /\ \E counts \in {CEILING - 2, CEILING - 1, CEILING} \X {CEILING - 2, CEILING - 1, CEILING} :
          Start(0, counts)
    /\ audit = {}
    /\ cred = Usable
    /\ labels = Labelled

NextCapacity ==
    \/ Run(1)
    \/ Initialize(1)
    \/ StartBatch(1)
    \/ FinishRun(1)
    \/ \E c \in Customers : LoadCustomer(1, c, BOOLEAN)
    \/ \E c \in Customers : ProcessContact(1, c, {TRUE}, {NoFault})

SpecCapacity == InitCapacity /\ [][NextCapacity]_vars

\* Runs one at a time, with failing saves and restarts of the process.
NextRestart ==
    \/ Run(1)
    \/ Initialize(1)
    \/ StartBatch(1)
    \/ FinishRun(1)
    \/ \E c \in Customers : LoadCustomer(1, c, {TRUE})
    \/ \E c \in Customers : ProcessContact(1, c, {TRUE}, Faults)
    \/ Restart

SpecRestart == InitRun /\ [][NextRestart]_vars

\* The Directory Client alone: calls of saveContactWithLabel on the accounts,
\* with the phone in either form, starting from empty directories; a request
\* is answered or fails with HTTP 500.  The label is that of the first
\* campaign table.
SaveContact(a, q, f) ==
    LET result == SaveContactWithLabel(dir[a], q, f)
    IN  /\ dir' = [dir EXCEPT ![a] = result.entries]
        /\ cnt' = [cnt EXCEPT ![a] = IF result.status = "created" THEN @ + 1 ELSE @]
        /\ labels' = [labels EXCEPT ![a][1] =
                        GetOrCreateContactGroup(@, f.stage # "groups", TRUE).count]
        /\ evt' = [NoEvt EXCEPT !.op = "save", !.acct = a, !.phone = q, !.kind = result.code,
                                !.result = result.status, !.createCalls = result.createCalls,
                                !.fault = f, !.retry = result.retryAfter]
        /\ UNCHANGED <<memory, now, store, audit, cred, noticed, restarted>>

ClientFaults == {NoFault} \cup [stage : Stages, err : {HttpError(500, FALSE, NoHeader, FALSE)}]

NextClient ==
    \E a \in AccountsOf(1), q \in Entries, f \in ClientFaults : SaveContact(a, q, f)

SpecClient == InitRun /\ [][NextClient]_vars

\* Runs one at a time while the operator excludes the pending contacts of a
\* customer; the Directory API answers every request.
NextOperator ==
    \/ Run(1)
    \/ Initialize(1)
    \/ StartBatch(1)
    \/ FinishRun(1)
    \/ \E c \in Customers : LoadCustomer(1, c, {TRUE})
    \/ \E c \in Customers : ProcessContact(1, c, {TRUE}, {NoFault})
    \/ \E c \in Customers : MarkContactsAsNotSaving(c)

SpecOperator == Init /\ [][NextOperator]_vars

\* Runs one at a time whose process may stop between the Directory calls of
\* a contact and its status write; the Directory API answers every request.
NextCrash ==
    \/ Run(1)
    \/ Initialize(1)
    \/ StartBatch(1)
    \/ FinishRun(1)
    \/ \E c \in Customers : LoadCustomer(1, c, {TRUE})
    \/ \E c \in Customers : CallDirectory(1, c, {TRUE})
    \/ \E c \in Customers : WriteStatus(1, c)
    \/ Restart

SpecCrash == Init /\ [][NextCrash]_vars

\* More customers than one batch holds; the first and the last customer have
\* pending contacts in the first campaign table.  A save is answered, fails
\* with HTTP 500 or fails with HTTP 403; the Record Store may fail inside a
\* task or in the discovery of run().
Busy == {1, NumCustomers}

InitBatch ==
    /\ StartWith(0, <<10, 20>>, Customers,
                 [t \in Tables |-> [p \in Phones |-> [c \in Customers |->
                     IF c \in Busy /\ t = 1 THEN 0 ELSE 1]]])
    /\ audit = {}
    /\ cred = Usable
    /\ labels = Labelled

BatchFaults == {NoFault} \cup [stage : {"create"}, err : {HttpError(500, FALSE, NoHeader, FALSE),
                                                           HttpError(403, FALSE, NoHeader, FALSE)}]

NextBatch ==
    \/ Run(1)
    \/ Initialize(1)
    \/ StartBatch(1)
    \/ FinishRun(1)
    \/ FailRun(1)
    \/ \E c \in Customers : LoadCustomer(1, c, {TRUE})
    \/ \E c \in Customers : ProcessContact(1, c, {TRUE}, BatchFaults)
    \/ \E c \in Busy : RejectTask(1, c)

SpecBatch == InitBatch /\ [][NextBatch]_vars

\* Runs one at a time for a customer whose accounts have stored credentials
\* that decrypt, that fail to decrypt, or that are missing.
InitDecrypt ==
    /\ StartWith(0, <<10, 20>>, {1},
                 [t \in Tables |-> [p \in Phones |-> [c \in Customers |-> 0]]])
    /\ audit = {}
    /\ labels = Labelled
    /\ \E own \in [AccountsOf(1) -> {"ok", "sealed", "none"}] :
          cred = [a \in Accounts |-> IF a \in AccountsOf(1) THEN own[a] ELSE "ok"]

NextDecrypt ==
    \/ Run(1)
    \/ Initialize(1)
    \/ StartBatch(1)
    \/ FinishRun(1)
    \/ \E c \in Customers : LoadCustomer(1, c, {TRUE})
    \/ \E c \in Customers : ProcessContact(1, c, {TRUE}, Faults)

SpecDecrypt == InitDecrypt /\ [][NextDecrypt]_vars

\* makeRequest(method, url, data): the first attempt is answered with the
\* HTTP status first; after a 401 the token is refreshed, and when the
\* refresh succeeds the request is sent once more and answered with second.
\* The result tells the requests sent, the refreshes made and the error that
\* is thrown (status 200: none; status 0: TOKEN_REFRESH_FAILED).
MakeRequest(first, refreshOk, second) ==
    IF first = 401
    THEN IF refreshOk
         THEN [attempts |-> 2, refreshes |-> 1,
               err |-> IF second = 200 THEN NoFault.err
                       ELSE HttpError(second, FALSE, NoHeader, FALSE)]
         ELSE [attempts |-> 1, refreshes |-> 1, err |-> HttpError(0, FALSE, NoHeader, TRUE)]
    ELSE [attempts |-> 1, refreshes |-> 0,
          err |-> IF first = 200 THEN NoFault.err ELSE HttpError(first, FALSE, NoHeader, FALSE)]

\* What the callers of makeRequest make of a thrown error: getContactCount
\* returns null, contactExistsInAnyAccount skips the account,
\* searchContactsByName returns an empty list, and the other requests of
\* saveContactWithLabel throw the typed error.
Callers == {"getContactCount", "contactExistsInAnyAccount", "searchContactsByName",
            "saveContactWithLabel"}

Surfaced(caller, err) ==
    IF err = NoFault.err THEN [result |-> "ok", code |-> ""]
    ELSE IF caller = "getContactCount" THEN [result |-> "null", code |-> ""]
    ELSE IF caller = "contactExistsInAnyAccount" THEN [result |-> "skipped", code |-> ""]
    ELSE IF caller = "searchContactsByName" THEN [result |-> "empty", code |-> ""]
    ELSE [result |-> "error", code |-> TypedError(err).code]

Statuses == {200, 400, 401, 403, 404, 429, 500}

\* One authenticated request of the Directory Client on behalf of a caller.
Request(a, caller, first, refreshOk, second) ==
    LET r == MakeRequest(first, refreshOk, second)
    IN  /\ evt' = [NoEvt EXCEPT
                     !.op = "request", !.acct = a,
                     !.result = Surfaced(caller, r.err).result,
                     !.kind = Surfaced(caller, r.err).code,
                     !.req = [caller |-> caller, first |-> first, refreshOk |-> refreshOk,
                              second |-> IF first = 401 /\ refreshOk THEN second ELSE 0,
                              attempts |-> r.attempts, refreshes |-> r.refreshes,
                              thrown |-> r.err.status]]
        /\ UNCHANGED <<memory, now, store, google, audit, cred, noticed, restarted>>

NextRequest ==
    \E a \in AccountsOf(1), caller \in Callers, first \in Statuses, refreshOk \in BOOLEAN,
       second \in Statuses : Request(a, caller, first, refreshOk, second)

SpecRequest == InitRun /\ [][NextRequest]_vars

\* The Directory Client alone with every failure a request can meet: any
\* status, with or without the words quota or limit in the message, a 429
\* with or without a Retry-After header, a failed token refresh.  The stage
\* "names" is the name search of generateUniqueName, whose failures
\* searchContactsByName swallows.  One number is saved, in either form, on
\* the first account, until the directory holds two entries of the form (a 404
\* answer of the phone search makes the client create the contact again).
MappingErrors ==
    {HttpError(st, q, NoHeader, FALSE) : st \in Statuses \ {200, 429}, q \in BOOLEAN}
    \cup {HttpError(429, q, h, FALSE) : q \in BOOLEAN, h \in Headers}
    \cup {HttpError(0, FALSE, NoHeader, TRUE)}

MappingFaults == {NoFault} \cup [stage : Stages \cup {"names"}, err : MappingErrors]

NextMapping ==
    \E q \in {Local(1), Intl(1)}, f \in MappingFaults :
        /\ dir[1][q] < 2
        /\ SaveContact(1, q, f)

SpecMapping == InitRun /\ [][NextMapping]_vars

\* ------------------------------------------------------------ phone search
\* searchContactByPhone(phone) as a function of what people:searchContacts
\* returns: fullResults are the phone fields of the contacts returned for
\* the full number, shortResults those returned for the last nine digits
\* (the API matches a query against names and other fields as well, so a
\* returned contact need not hold the queried digits).
SearchRequests(q, fullResults, shortResults) ==
    LET normalizedPhone == StripNonDigits(PhoneText(q))
        again == fullResults = {} /\ Len(normalizedPhone) > LAST_DIGITS
        results == IF again THEN shortResults ELSE fullResults
    IN  [queries |-> IF again THEN 2 ELSE 1,
         hit |-> \E e \in results :
                    Slice(StripNonDigits(PhoneText(e)), LAST_DIGITS)
                        = Slice(normalizedPhone, LAST_DIGITS)]

\* One call of searchContactByPhone whose requests are answered.
SearchPhone(a, q, fullResults, shortResults) ==
    /\ evt' = [NoEvt EXCEPT !.op = "search", !.acct = a, !.phone = q,
                            !.fullResults = fullResults, !.shortResults = shortResults,
                            !.queries = SearchRequests(q, fullResults, shortResults).queries,
                            !.hit = SearchRequests(q, fullResults, shortResults).hit]
    /\ UNCHANGED <<memory, now, store, google, audit, cred, noticed, restarted>>

NextSearch ==
    \E q \in Entries, fullResults \in SUBSET Entries, shortResults \in SUBSET Entries :
        SearchPhone(1, q, fullResults, shortResults)

SpecSearch == InitRun /\ [][NextSearch]_vars

\* ------------------------------------------------------------ labels
\* One call of getOrCreateContactGroup(formatLabelName(table t)) on account a;
\* the list request and the create request are answered or fail.
GetOrCreate(a, t, listOk, createOk) ==
    LET group == GetOrCreateContactGroup(labels[a][t], listOk, createOk)
    IN  /\ labels' = [labels EXCEPT ![a][t] = group.count]
        /\ evt' = [NoEvt EXCEPT !.op = "group", !.acct = a, !.tbl = t, !.result = group.status,
                                !.lookups = group.lists, !.listed = IF listOk THEN labels[a][t] ELSE 0,
                                !.groupCreates = group.creates]
        /\ UNCHANGED <<memory, now, store, dir, cnt, audit, cred, noticed, restarted>>

\* Accounts without labels; calls of getOrCreateContactGroup and of
\* saveContactWithLabel in any order.
InitLabels ==
    /\ Start(0, <<10, 20>>)
    /\ audit = {}
    /\ cred = Usable
    /\ labels = [a \in Accounts |-> [t \in Tables |-> 0]]

NextLabels ==
    \/ \E a \in AccountsOf(1), t \in Tables, listOk \in BOOLEAN, createOk \in BOOLEAN :
          GetOrCreate(a, t, listOk, createOk)
    \/ \E a \in AccountsOf(1), f \in ClientFaults : SaveContact(a, Local(1), f)

SpecLabels == InitLabels /\ [][NextLabels]_vars

\* ------------------------------------------------------------ sanitizeName
\* A name is a sequence of characters.  The characters that the rules of
\* sanitizeName tell apart: letters (a, m, e), a digit, the space, the
\* newline, a character of CHARS_TO_REMOVE (*), the dot, the dash, a quote,
\* a parenthesis, and a symbol that no rule names (:).
Letters == {"a", "m", "e"}
Digits == {"1"}
Whitespace == {" ", "\n"}
CHARS_TO_REMOVE == {"*"}
Chars == Letters \cup Digits \cup Whitespace \cup CHARS_TO_REMOVE \cup {".", "-", "'", "(", ":"}
Names == UNION {[1..n -> Chars] : n \in 0..MaxLen}

\* The length of the longest run of characters of cls at the head of s.
RunLen(s, cls) == Cardinality({j \in 1..Len(s) : \A i \in 1..j : s[i] \in cls})

\* String.replace(/[cls]{minLen,}/g, to): every maximal run of at least
\* minLen characters of cls becomes the character to, or, when to is "$1",
\* the last character of the run.
RECURSIVE ReplaceRuns(_, _, _, _)
ReplaceRuns(s, cls, minLen, to) ==
    IF s = <<>> THEN <<>>
    ELSE LET n == RunLen(s, cls)
         IN  IF n = 0 THEN <<Head(s)>> \o ReplaceRuns(Tail(s), cls, minLen, to)
             ELSE (IF n < minLen THEN SubSeq(s, 1, n)
                   ELSE IF to = "$1" THEN <<s[n]>> ELSE <<to>>)
                  \o ReplaceRuns(SubSeq(s, n + 1, Len(s)), cls, minLen, to)

Remove(s, cls) == SelectSeq(s, LAMBDA ch : ch \notin cls)
StripLeading(s, cls) == SubSeq(s, RunLen(s, cls) + 1, Len(s))
Reverse(s) == [i \in 1..Len(s) |-> s[Len(s) + 1 - i]]
StripTrailing(s, cls) == SubSeq(s, 1, Len(s) - RunLen(Reverse(s), cls))
Trim(s) == StripTrailing(StripLeading(s, Whitespace), Whitespace)
StripMeSuffix(s) ==
    IF Len(s) >= 3 /\ SubSeq(s, Len(s) - 2, Len(s)) = <<"-", "m", "e">>
    THEN SubSeq(s, 1, Len(s) - 3) ELSE s
Cap(s) == IF Len(s) > MAX_NAME THEN Trim(SubSeq(s, 1, MAX_NAME)) ELSE s

\* /[a-zA-Z\u05d0-\u05ea]{2,}/.test(s)
HasValidChars(s) == \E i \in 1..(Len(s) - 1) : s[i] \in Letters /\ s[i + 1] \in Letters

\* The rules of sanitizeName in their order, up to the length cap.
Cleaned(name) ==
    LET s1 == ReplaceRuns(name, {"\n"}, 1, " ")
        s2 == Remove(s1, CHARS_TO_REMOVE)
        s3 == StripMeSuffix(s2)
        s4 == StripLeading(s3, Digits)
        s5 == StripLeading(s4, {".", "-", "'"} \cup Whitespace)
        s6 == StripTrailing(s5, {".", "-", "'"} \cup Whitespace)
        s7 == Remove(s6, {"("})
        s8 == ReplaceRuns(s7, Whitespace, 2, " ")
        s9 == ReplaceRuns(s8, {".", "-"}, 2, "$1")
    IN  Cap(Trim(s9))

\* A sanitizeName that returns the cleaned name as it is.
SanitizeNameUnchecked(name, defaultName) ==
    IF name = <<>> THEN defaultName ELSE Cleaned(name)

\* sanitizeName(name, defaultName) without the date suffix " MM/YY" that is
\* appended to every result.
SanitizeName(name, defaultName) ==
    IF name = <<>> THEN defaultName
    ELSE IF ~HasValidChars(Cleaned(name)) \/ Len(Cleaned(name)) < 2 THEN defaultName
    ELSE Cleaned(name)

\* The fallback names: the empty name, a digit, a symbol, and a name of
\* letters such as the default of the program.
Fallbacks == {<<>>, <<"1">>, <<":">>, <<"a", "a">>}

\* One call of sanitizeName.
Sanitize(name, defaultName) ==
    /\ evt' = [NoEvt EXCEPT !.op = "sanitize", !.text = name, !.fallback = defaultName,
                            !.out = SanitizeName(name, defaultName)]
    /\ UNCHANGED <<memory, now, store, google, audit, cred, noticed, restarted>>

\* A call on the service after construction.
NextSanitize ==
    /\ evt = NoEvt
    /\ \E name \in Names, defaultName \in Fallbacks : Sanitize(name, defaultName)

SpecSanitize == InitRun /\ [][NextSanitize]_vars

\* ------------------------------------------------------------ contact names
\* The names of the contacts of an account that share a base name: 0 is the
\* base name itself, n is the base name followed by " (n)".
NameIds == 0..MaxSuffix

\* searchContactsByName(name): the names of the contacts found, and no name
\* when the request is answered with an error.
SearchContactsByName(names, answer) == IF answer = 200 THEN names ELSE {}

\* The while loop of generateUniqueName from counter on: it leaves with the
\* first suffix whose name is free, and through the break, with counter at
\* 1001, when the names of all suffixes up to the limit exist.
NextFree(existingNames, counter) ==
    LET free == {n \in counter..SUFFIX_LIMIT : n \notin existingNames}
    IN  IF free = {} THEN SUFFIX_LIMIT + 1 ELSE Min(free)

\* How often the condition of the while loop compares a suffixed name with
\* the existing names, from counter on: once for every suffix up to the
\* first free one, and up to the limit when none is free.
Compared(existingNames, counter) ==
    LET free == {n \in counter..SUFFIX_LIMIT : n \notin existingNames}
    IN  IF free = {} THEN SUFFIX_LIMIT - counter + 1 ELSE Min(free) - counter + 1

\* A name generation that returns the last name it compared when the limit
\* is reached.
GenerateUniqueNameCompared(names, answer) ==
    LET existingNames == SearchContactsByName(names, answer)
        free == IF 0 \notin existingNames THEN 0 ELSE NextFree(existingNames, 1)
    IN  IF free > SUFFIX_LIMIT THEN SUFFIX_LIMIT ELSE free

GenerateUniqueName(names, answer) ==
    LET existingNames == SearchContactsByName(names, answer)
    IN  IF 0 \notin existingNames THEN 0 ELSE NextFree(existingNames, 1)

\* One call of generateUniqueName(baseName) on an account that holds the
\* given names; the name search is answered with the HTTP status answer.
UniqueName(a, names, answer) ==
    /\ evt' = [NoEvt EXCEPT !.op = "unique", !.acct = a, !.names = names, !.answer = answer,
                            !.unique = GenerateUniqueName(names, answer),
                            !.compared =
                                IF 0 \notin SearchContactsByName(names, answer) THEN 0
                                ELSE Compared(SearchContactsByName(names, answer), 1)]
    /\ UNCHANGED <<memory, now, store, google, audit, cred, noticed, restarted>>

NextNames ==
    \E a \in AccountsOf(1), names \in SUBSET NameIds, answer \in Statuses \ {401} :
        UniqueName(a, names, answer)

SpecNames == InitRun /\ [][NextNames]_vars

\* The same on accounts that hold few names or the base name with nearly
\* all, all, or more than all of the suffixed names up to the limit.
NameSets == (SUBSET NameIds) \cup {0..n : n \in (SUFFIX_LIMIT - 1)..(SUFFIX_LIMIT + 1)}
                             \cup {1..SUFFIX_LIMIT}

NextSuffix ==
    \E a \in AccountsOf(1), names \in NameSets, answer \in Statuses \ {401} :
        UniqueName(a, names, answer)

SpecSuffix == InitRun /\ [][NextSuffix]_vars

\* ------------------------------------------------------------------ claims

\* C1: at most one call of run() executes the per-run algorithm (discovery
\* and customer processing) at a time, for every interleaving of triggers,
\* also when a trigger arrives while an earlier call awaits initialize().
C1_SingleFlight ==
    Cardinality({k \in Calls : callPc[k] = "batch"}) <= 1

\* C2: in every sequence of failures of a customer without a successful save,
\* the Notifier is called exactly once for each critical kind K, whatever
\* other kinds (RATE_LIMIT_TEMPORARY included) occur in between: a step never
\* calls the Notifier for a kind it was already called for since the last
\* success, and a handled critical failure has been notified.
C2_OncePerKind ==
    /\ [][evt'.op \in {"load", "contact"} /\ evt'.sent > 0
              => evt'.kind \notin noticed[evt'.cust]]_vars
    /\ [](evt.op \in {"load", "contact"} /\ evt.kind \in Critical
              => evt.kind \in noticed[evt.cust])

C4_NoCallBeforeResume ==
    [][
    evt'.op \in {"load", "contact"}
        => ~(rateLimited[evt'.cust] # 0 /\ now < rateLimited[evt'.cust])
    ]_vars

\* C5: after a contact of a customer fails with CONTACT_LIMIT_EXCEEDED,
\* TOKEN_INVALID or PERMISSION_DENIED, the run attempts no further pending
\* contact of that customer, in the current or in a remaining campaign.
C5_CriticalStopsCustomer ==
    [][
    \A k \in Calls, c \in Customers :
        tasks[k][c].halted => ~(evt'.op = "contact" /\ evt'.call = k /\ evt'.cust = c)
    ]_vars

\* C6: a restart of the process keeps the persisted error kind, notified flag
\* and contact statuses and forgets only the resume timestamps; a failure of
\* the same kind after the restart makes no Notifier call.
C6_RestartKeepsErrorState ==
    [][
    /\ evt'.op = "restart"
        => /\ errType' = errType /\ errNotified' = errNotified /\ status' = status
           /\ rateLimited' = [c \in Customers |-> 0]
    /\ \A c \in Customers :
        ( /\ restarted /\ errType[c] \in Critical /\ errNotified[c]
          /\ evt'.op \in {"load", "contact"} /\ evt'.cust = c /\ evt'.kind = errType[c] )
        => evt'.sent = 0 /\ errType'[c] = errType[c] /\ errNotified'[c]
    ]_vars

C6_Witness ==
    /\ restarted
    /\ evt.op = "contact" /\ evt.kind \in Critical /\ evt.sent = 0
    /\ errType[evt.cust] = evt.kind /\ errNotified[evt.cust]

\* C7: when every account of a customer reports a count of at least 25,000,
\* the customer takes the CONTACT_LIMIT_MAX notification path and the run
\* makes no search and no create for that customer.
C7_AllFull ==
    /\ evt.op = "load" /\ evt.full
        => /\ evt.kind = "CONTACT_LIMIT_MAX"
           /\ errType[evt.cust] = "CONTACT_LIMIT_MAX" /\ errNotified[evt.cust]
           /\ tasks[evt.call][evt.cust].out = "contact_limit_max"
    /\ \A k \in Calls, c \in Customers :
        tasks[k][c].out = "contact_limit_max"
            => /\ tasks[k][c].st = "done"
               /\ ~tasks[k][c].searched /\ ~tasks[k][c].created

C7_Witness ==
    /\ evt.op = "load" /\ evt.full
    /\ tasks[evt.call][evt.cust].out = "contact_limit_max"

\* C8: an account whose count could not be read is never taken as over the
\* limit: a customer with an unreadable account does not take the
\* CONTACT_LIMIT_MAX path.
C8_UnknownNotFull ==
    evt.op = "load" /\ evt.unknown => evt.kind # "CONTACT_LIMIT_MAX"

\* C9: when the phone of a pending contact is found, by its last nine
\* digits, in any account of the customer, the best account or another one,
\* the contact goes from pending to existed and no create call is made.
C9_FoundIsExisted ==
    [][
    ( /\ evt'.op = "contact" /\ evt'.found # 0
      /\ status[evt'.tbl][evt'.phone][evt'.cust] = 0 )
        => /\ status'[evt'.tbl][evt'.phone][evt'.cust] = 2
           /\ evt'.createCalls = 0
           /\ dir' = dir
    ]_vars

C9_Witness ==
    /\ evt.op = "contact" /\ evt.found \notin {0, evt.acct}
    /\ status[evt.tbl][evt.phone][evt.cust] = 2
    /\ evt.createCalls = 0

\* C10: of two calls of saveContactWithLabel in sequence with the same phone,
\* the first creates one directory entry and the second makes no create call
\* and returns existed (unless a request of it fails).
C10_SaveTwice ==
    [][
    ( /\ evt.op = "save" /\ evt.result = "created"
      /\ evt'.op = "save" /\ evt'.acct = evt.acct /\ evt'.phone = evt.phone )
    => /\ evt'.createCalls = 0
       /\ dir' = dir
       /\ Cardinality({e \in SameLastDigits[evt.phone] : dir[evt.acct][e] > 0}) = 1
       /\ \A e \in Entries : dir[evt.acct][e] <= 1
       /\ evt'.result = "existed" \/ (evt'.result = "error" /\ evt'.kind # "")
    ]_vars

C10_Witness ==
    /\ evt.op = "save" /\ evt.result = "existed" /\ evt.createCalls = 0
    /\ dir[evt.acct][evt.phone] = 1

\* C11: after a successful save or existence confirmation the persisted error
\* state of the customer is cleared (no error kind, notified false), and the
\* next failure of any critical kind makes exactly one Notifier call.
C11_SuccessClearsErrorState ==
    /\ [](evt.op = "contact" /\ evt.result \in {"created", "existed"}
              => errType[evt.cust] = NoError /\ ~errNotified[evt.cust])
    /\ [][( /\ evt'.op \in {"load", "contact"} /\ evt'.kind \in Critical
            /\ errType[evt'.cust] = NoError )
              => evt'.sent = 1]_vars

\* C12: in every persisted error state, notified implies that an error kind
\* is set and the Notifier was called for it; notified is false after every
\* successful save or existence confirmation, and after every change of the
\* error kind that was not itself notified.
C12_NotifiedInvariant ==
    /\ [](\A c \in Customers :
            errNotified[c] => errType[c] \in Critical /\ errType[c] \in noticed[c])
    /\ [](evt.op = "contact" /\ evt.result \in {"created", "existed"}
              => ~errNotified[evt.cust])
    /\ [][\A c \in Customers :
            errType'[c] # errType[c] /\ ~(evt'.cust = c /\ evt'.sent > 0)
                => ~errNotified'[c]]_vars

\* C13: the Orchestrator changes the status of a contact only from pending
\* to saved or from pending to existed; a status that is saved, existed or
\* excluded is never changed by it, also when the operator excludes the
\* contact while a run that read it as pending is in flight.
C13_StatusOnlyFromPending ==
    [][evt'.op # "mark"
        => \A t \in Tables, p \in Phones, c \in Customers :
              status'[t][p][c] # status[t][p][c]
                 => status[t][p][c] = 0 /\ status'[t][p][c] \in {1, 2}]_vars

C15_FailuresAreLocal ==
    /\ [][evt'.op = "contact" /\ evt'.kind = "UNKNOWN_ERROR"
            /\ Tail(tasks[evt'.call][evt'.cust].todo) # <<>>
          => /\ tasks'[evt'.call][evt'.cust].st = "run"
             /\ tasks'[evt'.call][evt'.cust].tbl = tasks[evt'.call][evt'.cust].tbl
             /\ tasks'[evt'.call][evt'.cust].todo = Tail(tasks[evt'.call][evt'.cust].todo)]_vars
    /\ [][evt'.op \in {"load", "contact", "reject"}
          => \A d \in Customers \ {evt'.cust} :
                tasks'[evt'.call][d] = tasks[evt'.call][d]]_vars
    /\ [](\A k \in Calls :
            callPc[k] = "batch" /\ Settled(k) /\ callIdx[k] < Len(CustomerPhoneArray)
                => ENABLED StartBatch(k))

C15_Witness ==
    /\ evt.op = "contact" /\ evt.cust = NumCustomers /\ evt.result = "created"
    /\ callIdx[evt.call] > BATCH_SIZE
    /\ errType[1] = "PERMISSION_DENIED" /\ errNotified[1]
    /\ \A p \in RowsOf(1) : status[1][p][1] = 0

\* C16: when a Record Store operation fails during a run, in the discovery
\* of run() or inside a customer task, the run is aborted, no further
\* customer is processed in it, and the caller of run() observes an error.
C16_StoreFailureAbortsRun ==
    /\ [](evt.op = "abort" => evt.result = "rejected")
    /\ [][\A k \in Calls :
            (\E c \in Customers : tasks[k][c].out = "rejected")
                => ~(evt'.op \in {"load", "contact"} /\ evt'.call = k)]_vars

\* C17: when a Directory call for a contact of a customer fails with HTTP 429
\* carrying Retry-After n, the resume timestamp of the customer becomes
\* now + n (now + 60 when the header is absent), no Notifier call is made,
\* and the run attempts no further contact of that customer.
C17_RateLimitPausesCustomer ==
    /\ [][evt'.op = "contact" /\ evt'.kind = "RATE_LIMIT_TEMPORARY"
          => /\ rateLimited'[evt'.cust] =
                    now + (IF evt'.header = NoHeader THEN DEFAULT_RETRY ELSE evt'.header)
             /\ evt'.sent = 0]_vars
    /\ [][\A k \in Calls, c \in Customers :
            tasks[k][c].limited => ~(evt'.op = "contact" /\ evt'.call = k /\ evt'.cust = c)]_vars

\* C18: an account whose stored credentials fail to decrypt is unusable: no
\* Directory call is made with it, and a customer that has no other account
\* ends with the outcome no_tokens.
C18_UndecryptableUnusable ==
    /\ evt.op \in {"load", "contact"} => \A a \in evt.asked : cred[a] # "sealed"
    /\ ( /\ evt.op = "load"
         /\ \A a \in AccountsOf(evt.cust) : cred[a] # "ok" )
       => tasks[evt.call][evt.cust].out = "no_tokens"

\* C19: for every authenticated request of the Directory Client: after a 401
\* on the first attempt exactly one refresh is made and, when it succeeds,
\* exactly one retry, whose failure is thrown without a further refresh or
\* retry; any other failure is thrown without a retry; and a failed refresh
\* is surfaced as TOKEN_INVALID.
C19_RefreshAndRetryOnce ==
    evt.op = "request"
        => /\ evt.req.first = 401
                => /\ evt.req.refreshes = 1
                   /\ evt.req.attempts = IF evt.req.refreshOk THEN 2 ELSE 1
                   /\ evt.req.refreshOk => evt.req.thrown = evt.req.second
           /\ evt.req.first # 401
                => /\ evt.req.refreshes = 0 /\ evt.req.attempts = 1
                   /\ evt.req.thrown = evt.req.first
           /\ evt.req.first = 401 /\ ~evt.req.refreshOk
                => evt.result = "error" /\ evt.kind = "TOKEN_INVALID"

C21_EveryFailureTyped ==
    ( /\ evt.op = "save"
      /\ \/ evt.fault.stage \in {"groups", "search"}
         \/ evt.fault.stage = "names" /\ evt.result # "existed" )
        => /\ evt.result = "error"
           /\ evt.kind \in {"RATE_LIMIT_TEMPORARY", "CONTACT_LIMIT_EXCEEDED",
                            "PERMISSION_DENIED", "TOKEN_INVALID", "UNKNOWN_ERROR"}

\* C22: generateUniqueName(base) never returns a name that equals the name
\* of an existing contact of the account, unless all of the bounded suffix
\* attempts collide.
C22_UniqueName ==
    evt.op = "unique"
        => \/ evt.unique \notin evt.names
           \/ \A n \in 1..SUFFIX_LIMIT : n \in evt.names

\* C23 as stated: for any input and any fallback, the name part returned by
\* sanitizeName either contains two consecutive letters or equals the
\* fallback; it is never empty, digits-only or symbols-only.
C23_SanitizedAnyFallback ==
    evt.op = "sanitize"
        => /\ HasValidChars(evt.out) \/ evt.out = evt.fallback
           /\ evt.out # <<>>
           /\ \E i \in 1..Len(evt.out) : evt.out[i] \in Letters

\* C23: for any input and any fallback, the name part returned by
\* sanitizeName either contains two consecutive letters or equals the
\* fallback; with a fallback that contains two consecutive letters it is
\* never empty, digits-only or symbols-only.
C23_Sanitized ==
    evt.op = "sanitize"
        => /\ HasValidChars(evt.out) \/ evt.out = evt.fallback
           /\ HasValidChars(evt.fallback)
                => /\ evt.out # <<>>
                   /\ \E i \in 1..Len(evt.out) : evt.out[i] \in Letters

C23_Witness ==
    /\ evt.op = "sanitize"
    /\ evt.text # <<>> /\ ~HasValidChars(evt.text)
    /\ HasValidChars(evt.fallback) /\ evt.out = evt.fallback

\* C24: in a run at most 5 customer tasks are in flight, no task starts
\* before every task of the previous batch has settled, no customer is
\* processed twice, and when the batch loop ends every discovered customer
\* has been processed exactly once.
C24_Batches ==
    /\ [](\A k \in Calls :
            /\ Cardinality({c \in Customers : tasks[k][c].st \in {"load", "run"}}) <= BATCH_SIZE
            /\ \A c \in Customers : started[k][c] <= 1)
    /\ [][\A k \in Calls, c \in Customers :
            started'[k][c] > started[k][c] => Settled(k)]_vars
    /\ [][\A k \in Calls :
            callPc[k] = "batch" /\ callPc'[k] = "idle" /\ evt'.op \notin {"abort", "restart"}
                => \A c \in Customers : started[k][c] = IF c \in columns THEN 1 ELSE 0]_vars

C24_Witness ==
    /\ callPc[1] = "batch" /\ callIdx[1] > BATCH_SIZE
    /\ tasks[1][NumCustomers].st = "run"
    /\ \A c \in Customers : started[1][c] = 1

\* C25: every create call of a customer task goes to the account that was
\* selected as best when the task started; the task keeps that account to
\* its end, and a create changes no other account.
C25_CreateOnBest ==
    /\ [][evt'.op = "contact" /\ evt'.createCalls > 0
          => LET best == tasks[evt'.call][evt'.cust].best
             IN  /\ evt'.acct = best
                 /\ best \in AccountsOf(evt'.cust)
                 /\ \A a \in Accounts \ {best} : dir'[a] = dir[a] /\ cnt'[a] = cnt[a]]_vars
    /\ [][\A k \in Calls, c \in Customers :
            tasks[k][c].st = "run" /\ tasks'[k][c].st = "run"
                => tasks'[k][c].best = tasks[k][c].best]_vars

C25_Witness ==
    /\ evt.op = "contact" /\ evt.result = "created"
    /\ evt.acct = 2 * evt.cust
    /\ cnt[evt.acct] = CEILING

\* C26: getBestAccountForSaving returns, among the accounts of the customer
\* whose count is known and below 25000, one with the minimal count, and
\* none exactly when there is no such account; the task then ends with
\* no_valid_account, and a task that ends so has made no search and no
\* create.
C26_BestAccount ==
    /\ evt.op = "load" /\ evt.best # -1
        => LET known == {a \in DOMAIN evt.counts :
                            evt.counts[a] # NullCount /\ evt.counts[a] < CEILING}
               tk == tasks[evt.call][evt.cust]
           IN  /\ known = {} <=> evt.best = 0
               /\ evt.best # 0 => /\ evt.best \in known
                                  /\ \A a \in known : evt.counts[evt.best] <= evt.counts[a]
                                  /\ tk.best = evt.best
               /\ evt.best = 0 <=> tk.out = "no_valid_account"
    /\ \A k \in Calls, c \in Customers :
        tasks[k][c].out = "no_valid_account"
            => tasks[k][c].st = "done" /\ ~tasks[k][c].searched /\ ~tasks[k][c].created

C26_Witness ==
    /\ evt.op = "load" /\ evt.best = 2 * evt.cust
    /\ evt.counts[evt.best - 1] = CEILING - 1
    /\ evt.counts[evt.best] = CEILING - 2
    /\ tasks[evt.call][evt.cust].st = "run"

\* C27: the Orchestrator never creates a contact in one account of a
\* customer while a contact with the same last nine digits exists in another
\* account of that customer, also when an existence search fails.
C27_NoDuplicateAcrossAccounts ==
    [][evt'.op = "contact" /\ evt'.result = "created"
        => \A a \in AccountsOf(evt'.cust) \ {evt'.acct} :
              \A e \in SameLastDigits[Local(evt'.phone)] : dir[a][e] = 0]_vars

\* C28: after any sequence of getOrCreateContactGroup(name) calls on an
\* account, from successive contacts and successive runs, the account holds
\* at most one label with that name: a call makes a create request only
\* when the listing holds no label with the name, and otherwise returns the
\* existing label.
C28_OneLabel ==
    /\ \A a \in Accounts, t \in Tables : labels[a][t] <= 1
    /\ evt.op = "group"
        => /\ evt.groupCreates > 0 => evt.listed = 0
           /\ evt.listed > 0 => evt.result = "existing" /\ evt.groupCreates = 0
           /\ evt.result = "created" => evt.groupCreates = 1 /\ labels[evt.acct][evt.tbl] = 1

C28_Witness ==
    /\ evt.op = "group" /\ evt.result = "existing" /\ evt.listed = 1
    /\ labels[evt.acct][evt.tbl] = 1

\* C29: within one pass the label lookup against the Directory API is made
\* at most once for an account and a label name: of two successive contacts
\* of one campaign that a task saves to its account, the second makes no
\* label request.
C29_LabelLookupOnce ==
    [][( /\ evt.op = "contact" /\ evt'.op = "contact"
         /\ evt'.call = evt.call /\ evt'.cust = evt.cust
         /\ evt'.tbl = evt.tbl /\ evt'.acct = evt.acct
         /\ evt.lookups > 0 )
        => evt'.lookups = 0]_vars

\* C30: searchContactByPhone queries by the full number and, if that gives
\* no match (no returned phone field with the same last nine digits) and
\* the number has more than nine digits, queries again with the last nine
\* digits; it returns a contact exactly when a phone field of a returned
\* contact has the same last nine digits as the query.
C30_SearchByPhone ==
    evt.op = "search"
        => LET n == StripNonDigits(PhoneText(evt.phone))
               Match(S) == \E e \in S : Slice(StripNonDigits(PhoneText(e)), LAST_DIGITS)
                                            = Slice(n, LAST_DIGITS)
               again == ~Match(evt.fullResults) /\ Len(n) > LAST_DIGITS
           IN  /\ evt.queries = IF again THEN 2 ELSE 1
               /\ evt.hit <=> (Match(evt.fullResults) \/ (again /\ Match(evt.shortResults)))

\* ------------------------------------------------------------------ C31
\* Two customers that have a column in the campaign tables, with every row
\* pending: both are in the first batch of a run.  The rows each task writes
\* are recorded.
InitRows ==
    /\ StartWith(0, <<10, 20>>, {1, 2},
                 [t \in Tables |-> [p \in Phones |-> [c \in Customers |-> 0]]])
    /\ audit = {"rows"}
    /\ cred = Usable
    /\ labels = Labelled

NextRows ==
    \/ Run(1)
    \/ Initialize(1)
    \/ StartBatch(1)
    \/ FinishRun(1)
    \/ \E c \in Customers : LoadCustomer(1, c, {TRUE})
    \/ \E c \in Customers : ProcessContact(1, c, {TRUE}, BatchFaults)

SpecRows == InitRows /\ [][NextRows]_vars

\* C31: no two customer tasks of one batch write the same Record Store row:
\* the rows written by the task of one customer (contact status, error
\* state, contact count, activity log, hourly counters) and the rows written
\* by the task of another customer of the batch are disjoint.
C31_TasksWriteOwnRows ==
    \A k \in Calls : \A c \in Customers : \A d \in Customers \ {c} :
        tasks[k][c].wrote \cap tasks[k][d].wrote = {}

\* ------------------------------------------------------------------ C32
\* Triggers that arrive at any time, with the Notifier calls recorded; a save
\* is answered or is rejected with HTTP 401 after a failed refresh, and
\* sendErrorNotification runs in its awaited steps.
InitDedup ==
    /\ Start(0, <<10, 20>>)
    /\ audit = {"notifier"}
    /\ cred = Usable
    /\ labels = Labelled

NextDedup ==
    \/ \E k \in Calls : Run(k)
    \/ \E k \in Calls : Initialize(k)
    \/ \E k \in Calls : StartBatch(k)
    \/ \E k \in Calls : FinishRun(k)
    \/ \E k \in Calls, c \in Customers : LoadCustomer(k, c, {TRUE})
    \/ \E k \in Calls, c \in Customers : GetCustomerErrorState(k, c, "TOKEN_INVALID")
    \/ \E k \in Calls, c \in Customers : UpdateCustomerError(k, c, TRUE)
    \/ \E k \in Calls, c \in Customers : PostNotification(k, c, TRUE)

SpecDedup == InitDedup /\ [][NextDedup]_vars

\* C32: for one customer no two executions of sendErrorNotification are both
\* between their read of the persisted error state and their write of
\* notified = true, and the Notifier is never called for a kind it was called
\* for already since the customer's last success.
C32_NoRaceOnNotified ==
    /\ [](\A c \in Customers : \A k \in Calls : \A j \in Calls \ {k} :
             ~(tasks[k][c].read.stage = "read" /\ tasks[j][c].read.stage = "read"))
    /\ [][evt'.op = "deliver" => evt'.kind \notin noticed[evt'.cust]]_vars

\* ------------------------------------------------------------------ C33
\* Triggers that arrive at any time, for one customer with one pending
\* contact; the discovery of run() or a Record Store operation of a task may
\* fail and the save may fail; every awaited call
\* returns, so that each step of a run that can be taken is taken in the end.
InitLive ==
    /\ StartWith(0, <<10, 20>>, {1},
                 [t \in Tables |-> [p \in Phones |-> [c \in Customers |->
                     IF t = 1 /\ p = 1 THEN 0 ELSE 1]]])
    /\ audit = {}
    /\ cred = Usable
    /\ labels = Labelled

NextLive ==
    \/ \E k \in Calls : Run(k)
    \/ \E k \in Calls : Initialize(k)
    \/ \E k \in Calls : StartBatch(k)
    \/ \E k \in Calls : FinishRun(k)
    \/ \E k \in Calls : FailRun(k)
    \/ \E k \in Calls, c \in Customers : LoadCustomer(k, c, {TRUE})
    \/ \E k \in Calls, c \in Customers : ProcessContact(k, c, {TRUE}, BatchFaults)
    \/ \E k \in Calls, c \in Customers : RejectTask(k, c)

SpecLive ==
    /\ InitLive
    /\ [][NextLive]_vars
    /\ \A k \in Calls :
          /\ WF_vars(Initialize(k))
          /\ WF_vars(StartBatch(k))
          /\ WF_vars(FinishRun(k))
          /\ WF_vars(\E c \in Customers : LoadCustomer(k, c, {TRUE}))
          /\ WF_vars(\E c \in Customers : ProcessContact(k, c, {TRUE}, BatchFaults))

\* C33: a run that is Running returns to Idle in the end, with isRunning
\* false once no run is left, whether its discovery fails, a task rejects or
\* all succeeds; and from Idle a trigger starts a new run.
C33_RunReturnsToIdle ==
    /\ \A k \in Calls : (callPc[k] = "batch") ~> (callPc[k] = "idle" /\ ~isRunning)
    /\ []((~isRunning /\ \E k \in Calls : callPc[k] = "idle")
              => \E k \in Calls : ENABLED (Run(k) /\ callPc'[k] # "idle"))

\* A run whose discovery failed is back at Idle.
C33_Witness ==
    /\ evt.op = "abort"
    /\ callPc[evt.call] = "idle" /\ ~isRunning

\* ------------------------------------------------------------------ C34
\* Runs one at a time while the clock advances and saves are rejected with
\* HTTP 429: the timer keeps triggering run(), the clock keeps advancing and
\* every awaited call returns.
SpecResume ==
    /\ Init
    /\ [][NextClock]_vars
    /\ WF_vars(Tick)
    /\ WF_vars(Run(1))
    /\ WF_vars(Initialize(1))
    /\ WF_vars(StartBatch(1))
    /\ WF_vars(FinishRun(1))
    /\ WF_vars(\E c \in Customers : LoadCustomer(1, c, {TRUE}))
    /\ WF_vars(\E c \in Customers : ProcessContact(1, c, {TRUE}, RateFaults))

\* C34: once RATE_LIMIT_TEMPORARY has set the resume time T of a customer, a
\* run that calls processCustomer for it at or after T passes the guard; the
\* load of its accounts hands its pending contacts to the contact loop, which
\* attempts them; and unless a new rate limit moves T, such a run comes.
C34_RateLimitEnds ==
    /\ [][\A c \in Customers :
            (started'[1][c] > started[1][c] /\ rateLimited[c] # 0 /\ now >= rateLimited[c])
                => tasks'[1][c].st = "load"]_vars
    /\ [][(evt'.op = "load" /\ NextCampaign(status, evt'.cust, 1).tbl # 0)
            => /\ tasks'[1][evt'.cust].st = "run"
               /\ tasks'[1][evt'.cust].todo = NextCampaign(status, evt'.cust, 1).todo]_vars
    /\ \A c \in Customers : \A T \in 1..MaxTime :
            (rateLimited[c] = T)
                ~> ((evt.op = "load" /\ evt.cust = c /\ now >= T) \/ rateLimited[c] # T)
    /\ \A c \in Customers :
            (tasks[1][c].st = "run") ~> (evt.op = "contact" /\ evt.cust = c)

\* A contact of a customer that has a resume time is attempted at or after
\* that time.
C34_Witness ==
    /\ evt.op = "contact"
    /\ rateLimited[evt.cust] # 0 /\ now >= rateLimited[evt.cust]

\* ------------------------------------------------------------------ C35
\* Runs one at a time with the Notifier calls recorded; a save is answered or
\* fails with a critical kind, and the delivery of the notification to the
\* Notifier succeeds or fails.
DeliveryKinds == {"TOKEN_INVALID", "PERMISSION_DENIED"}

NextDelivery ==
    \/ Run(1)
    \/ Initialize(1)
    \/ StartBatch(1)
    \/ FinishRun(1)
    \/ \E c \in Customers : LoadCustomer(1, c, {TRUE})
    \/ \E c \in Customers : ProcessContact(1, c, {TRUE}, {NoFault})
    \/ \E c \in Customers, K \in DeliveryKinds : GetCustomerErrorState(1, c, K)
    \/ \E c \in Customers : UpdateCustomerError(1, c, TRUE)
    \/ \E c \in Customers, ok \in BOOLEAN : PostNotification(1, c, ok)

SpecDelivery == InitDedup /\ [][NextDelivery]_vars

\* C35: a failed delivery to the Notifier is not fatal: the task is not
\* rejected and goes on as it does after a delivery that succeeded, to the
\* next campaign or to its return with the outcome processed; the run stays
\* in its batch loop and the Record Store is left as it is.
C35_DeliveryFailureNotFatal ==
    [][evt'.op = "deliver" /\ evt'.result = "failed"
        => /\ tasks'[evt'.call][evt'.cust].out # "rejected"
           /\ tasks'[evt'.call][evt'.cust]
                 = LeaveCampaign(tasks[evt'.call][evt'.cust], evt'.cust)
           /\ callPc' = callPc /\ isRunning' = isRunning /\ callIdx' = callIdx
           /\ store' = store]_vars

\* A task has returned processed after a delivery that failed.
C35_Witness ==
    /\ evt.op = "deliver" /\ evt.result = "failed"
    /\ tasks[evt.call][evt.cust].st = "done"
    /\ tasks[evt.call][evt.cust].out = "processed"

\* ------------------------------------------------------------------ C39
\* Runs one at a time with the Notifier calls recorded, in which the process
\* may stop at any await; a save is answered or fails with a critical kind,
\* the statement of updateCustomerError is executed or fails, and the
\* delivery to the Notifier succeeds or fails.
NextPersist ==
    \/ Run(1)
    \/ Initialize(1)
    \/ StartBatch(1)
    \/ FinishRun(1)
    \/ \E c \in Customers : LoadCustomer(1, c, {TRUE})
    \/ \E c \in Customers : ProcessContact(1, c, {TRUE}, {NoFault})
    \/ \E c \in Customers, K \in DeliveryKinds : GetCustomerErrorState(1, c, K)
    \/ \E c \in Customers, ok \in BOOLEAN : UpdateCustomerError(1, c, ok)
    \/ \E c \in Customers, ok \in BOOLEAN : PostNotification(1, c, ok)
    \/ Restart

SpecPersist == InitDedup /\ [][NextPersist]_vars

\* C39: when a delivery to the Notifier is attempted for (customer, K), the
\* persisted state of the customer is (K, notified); the delivery, failed or
\* not, and a stop of the process leave that state as it is; and a failure of
\* kind K handled while the persisted state is (K, notified) goes on to no
\* write and no delivery.
C39_NotifiedBeforeDelivery ==
    /\ [][evt'.op = "deliver"
            => /\ errType[evt'.cust] = evt'.kind /\ errNotified[evt'.cust]
               /\ errType' = errType /\ errNotified' = errNotified]_vars
    /\ [][evt'.op = "restart" => errType' = errType /\ errNotified' = errNotified]_vars
    /\ [][evt'.op = "update"
            => ~(errType[evt'.cust] = evt'.kind /\ errNotified[evt'.cust])]_vars

\* ------------------------------------------------------------------ C36
\* C36 as stated: generateUniqueName ends after at most 1000 suffix attempts,
\* that is comparisons of a suffixed name with the existing names, and when
\* every attempt collides it returns the last name it attempted.
C36_SuffixLimitAsStated ==
    evt.op = "unique"
        => /\ evt.compared <= SUFFIX_LIMIT
           /\ (evt.compared > 0 /\ \A n \in 1..evt.compared : n \in evt.names)
                  => evt.unique = evt.compared

\* C36: generateUniqueName ends after it has compared at most 1000 suffixed
\* names with the existing names; when one of them is free it returns that
\* name, and when all of them collide it returns the name with the next
\* suffix, 1001, which it has not compared.
C36_SuffixLimit ==
    evt.op = "unique"
        => /\ evt.compared <= SUFFIX_LIMIT
           /\ evt.compared > 0
                  => IF \A n \in 1..evt.compared : n \in evt.names
                     THEN evt.compared = SUFFIX_LIMIT /\ evt.unique = SUFFIX_LIMIT + 1
                     ELSE evt.unique = evt.compared /\ evt.unique \notin evt.names

\* All of the 1000 suffixed names collide.
C36_Witness ==
    /\ evt.op = "unique" /\ evt.answer = 200
    /\ evt.compared = SUFFIX_LIMIT
    /\ \A n \in 0..SUFFIX_LIMIT : n \in evt.names

\* ------------------------------------------------------------------ C37
\* Runs one at a time with the activity log and the hourly counters
\* recorded, up to MaxLog entries; a save is answered, fails with HTTP 500 or
\* fails with HTTP 403.
InitJournal ==
    /\ \E holder \in {0} \cup AccountsOf(1) : Start(holder, <<10, 20>>)
    /\ audit = {"log"}
    /\ cred = Usable
    /\ labels = Labelled

NextJournal ==
    \/ Run(1)
    \/ Initialize(1)
    \/ StartBatch(1)
    \/ FinishRun(1)
    \/ \E c \in Customers : LoadCustomer(1, c, {TRUE})
    \/ Len(saveLog) < MaxLog /\ \E c \in Customers : ProcessContact(1, c, {TRUE}, BatchFaults)

SpecJournal == InitJournal /\ [][NextJournal]_vars

\* C37: every per-contact attempt appends one entry with its status (saved,
\* existed or error) for the customer, the campaign and the contact to the
\* activity log and adds one to the customer's hourly counter of that status
\* and to no other counter; no step changes or removes an entry that the log
\* holds.
C37_AttemptsAreLogged ==
    /\ [][evt'.op = "contact"
            => /\ saveLog' = Append(saveLog, [customer |-> evt'.cust, campaign |-> evt'.tbl,
                                               contact |-> evt'.phone,
                                               status |-> LogStatus(evt'.result)])
               /\ hourly' = [hourly EXCEPT ![evt'.cust][LogStatus(evt'.result)] = @ + 1]]_vars
    /\ [][/\ Len(saveLog') >= Len(saveLog)
          /\ SubSeq(saveLog', 1, Len(saveLog)) = saveLog]_vars

\* The log holds an entry of each status.
C37_Witness ==
    \A st \in LogStatuses : \E i \in 1..Len(saveLog) : saveLog[i].status = st

\* ------------------------------------------------------------------ C38
\* Runs one at a time whose process may stop between the Directory calls of
\* a contact and its status write, for a customer whose two accounts hold the
\* same number of contacts; the search of the existence check in an account
\* is answered or fails, the requests of a save are answered.
InitRecover ==
    /\ Start(0, <<10, 10>>)
    /\ audit = {}
    /\ cred = Usable
    /\ labels = Labelled

NextRecover ==
    \/ Run(1)
    \/ Initialize(1)
    \/ StartBatch(1)
    \/ FinishRun(1)
    \/ \E c \in Customers : LoadCustomer(1, c, {TRUE})
    \/ \E c \in Customers : CallDirectory(1, c, BOOLEAN)
    \/ \E c \in Customers : WriteStatus(1, c)
    \/ Restart

SpecRecover == InitRecover /\ [][NextRecover]_vars

\* C38: a stop of the process leaves the status of every contact as it is,
\* so a contact that was created and whose status was not written is pending
\* in the next run; after a stop, the Directory calls for a pending contact
\* that an account of the customer holds end as existed and make no create
\* request.
C38_NoSecondCreate ==
    /\ [][evt'.op = "restart" => status' = status]_vars
    /\ [][( /\ evt'.op = "call" /\ restarted
            /\ \E a \in AccountsOf(evt'.cust) :
                  \E e \in SameLastDigits[Local(evt'.phone)] : dir[a][e] > 0 )
            => /\ evt'.result = "existed"
               /\ evt'.createCalls = 0]_vars

====
